---- MODULE Spec2Model ----
(***************************************************************************)
(* Stock alert bot: the alert evaluators with their dedup logs             *)
(* (app/analytics/alerts.py), the notification transport                   *)
(* (app/core/telegram_client.py), the hybrid FMP + Yahoo resolver          *)
(* (app/services/fmp_hybrid.py, yahoo_direct.py, data_providers.py) and    *)
(* the per-provider rate-limit gates.                                      *)
(*                                                                         *)
(* The evaluators' prices are in mills (1/1000 dollar) so that rounding to *)
(* cents is a real conversion; time is in milliseconds.                    *)
(***************************************************************************)
EXTENDS Integers, Sequences, FiniteSets, TLC

VARIABLES
    \* ---- alert evaluator (alerts.py) ----
    kind,        \* which evaluator this behaviour runs: "high" or "dip"
    fileLog,     \* content of the evaluator's durable log file
    memLog,      \* high_log / dip_log: the list loaded by get_log for the run
    apc,         \* position of the worker: idle (asleep between runs), loop,
                 \* send, save, handler, wrapper, dead (thread ended)
    idx,         \* index into STOCKS_TO_CHECK of the symbol being checked
    quotes,      \* result of get_multiple_stock_quotes for the run
    cur,         \* alert key whose notification is being sent
    sent,        \* history: number of alert notifications delivered, per key
    seen,        \* history: number of runs that observed the key's condition
    runStart,    \* history: the log file and the sends when the run began
    \* ---- rate-limit gates (_fmp_rate_limit, _wait_for_rate_limit) ----
    gprov,       \* provider whose gate this behaviour exercises
    gnow,        \* time.time(), in milliseconds
    last_request,\* _last_fmp_request / _last_request of that provider
    gpc,         \* per thread: idle, sleep (inside time.sleep) or stamp
    wake,        \* per thread: the time its time.sleep ends
    lastSent,    \* history: time of the latest HTTP request to the provider
    lastGap,     \* history: time between the two latest HTTP requests
    \* ---- hybrid resolver (fmp_hybrid.py, yahoo_direct.py, data_providers.py) ----
    FMP_ENABLED,        \* adaptive enable flag of the FMP layer
    fmp_consecutive_forbidden, \* _fmp_consecutive_forbidden
    hybrid_quote_cache, \* _hybrid_quote_cache: symbol -> quote
    hybrid_quote_age,   \* time.time() - _hybrid_quote_ts[symbol], below the TTL
    company_name_cache, \* symbols that have a name in _company_name_cache
    yahoo_quote_cache,  \* quotes in yahoo_direct's _quote_cache
    yahoo_cache_valid,  \* per symbol: the request types whose entry is valid
    yahoo_since,        \* time since the latest Yahoo request, up to the delay
    fetched,     \* history: per cache and symbol, the time since the cached
                 \* quote was received from its provider, up to the TTL
    run403,      \* history: consecutive HTTP 403 responses received from FMP
    sinceCall,   \* history: time since the last resolver call began
    lastCall,    \* history: what the latest resolver call did and returned
    treq,        \* the transport call in progress, or the latest one
    \* ---- historical series (get_hybrid_stock_history, get_historical_prices) ----
    hreq,        \* what the providers hold when the series is asked for
    hist,        \* the series the latest call returned
    \* ---- watchlist (utils/persistence.py, core/interactive_bot.py) ----
    stock_file,  \* the symbols in data/stock_list.txt
    config_stocks, \* the list config.STOCKS_TO_CHECK is bound to
    lastCmd,     \* history: the latest /add or /remove and its reply
    saved,       \* history: the latest successful save_stock_list
    \* ---- intraday interval alerts (run_and_notify_stock_interval) ----
    prices_file, \* content of stock_prices_log.txt
    prices_log,  \* the list loaded by get_log for the run
    ipc,         \* position of the worker: sleep (between runs) or loop
    iidx,        \* index into STOCKS_TO_CHECK of the symbol being checked
    iquotes,     \* the quote each symbol has throughout
    inow,        \* time.time(), in seconds
    isent,       \* history: interval notifications sent, per symbol
    \* ---- Yahoo's sequential batches (get_quotes_with_smart_delays) ----
    sreq,        \* the symbols asked for, max_concurrent, and the symbols
                 \* for which get_yahoo_quote gives a quote
    sres,        \* the map the call returned
    \* ---- Yahoo's earnings calendar (get_yahoo_earnings_calendar) ----
    ereq,        \* the current date and what the three endpoints answer
    eres,        \* the record the call returned
    \* ---- threads inside the FMP layer (_make_fmp_request, ----
    \* ---- add_company_name_to_cache)                       ----
    fpc,         \* per thread: idle, gate (past the FMP_ENABLED test of
                 \* _make_fmp_request, in _fmp_rate_limit or a backoff
                 \* sleep) or namegate (past the test of
                 \* add_company_name_to_cache, in _rate_limit_fmp)
    fattempt,    \* per thread: attempt of the for loop of _make_fmp_request
    lateSends    \* history: HTTP requests sent to FMP while FMP_ENABLED
                 \* was False

alertVars == <<kind, fileLog, memLog, apc, idx, quotes, cur, sent, seen,
              runStart>>

gateVars == <<gprov, gnow, last_request, gpc, wake, lastSent, lastGap>>

resVars == <<FMP_ENABLED, fmp_consecutive_forbidden, hybrid_quote_cache,
             hybrid_quote_age, company_name_cache, yahoo_quote_cache,
             yahoo_cache_valid, yahoo_since, run403, sinceCall, lastCall,
             treq, fetched>>

histVars == <<hreq, hist>>

\* the parts of the program outside the evaluators, the gates and the
\* quote resolver
watchVars == <<stock_file, config_stocks, lastCmd, saved>>

intervalVars == <<prices_file, prices_log, ipc, iidx, iquotes, inow, isent>>

smartVars == <<sreq, sres>>

earnVars == <<ereq, eres>>

fmpThreadVars == <<fpc, fattempt, lateSends>>

restVars == <<histVars, watchVars, intervalVars, smartVars, earnVars,
              fmpThreadVars>>

vars == <<alertVars, gateVars, resVars, restVars>>

\* what the alert evaluator leaves alone
notAlertVars == <<gateVars, resVars, restVars>>

\* what the rate-limit gates leave alone
notGateVars == <<alertVars, resVars, restVars>>

\* what the resolver leaves alone
notResVars == <<alertVars, gateVars, restVars>>

\* what the historical series leave alone
notHistVars == <<alertVars, gateVars, resVars, watchVars, intervalVars,
                 smartVars, earnVars, fmpThreadVars>>

\* what the watchlist commands leave alone, the resolver apart
notWatchVars == <<alertVars, gateVars, histVars, intervalVars, smartVars,
                  earnVars, fmpThreadVars>>

\* what the interval evaluator leaves alone
notIntervalVars == <<alertVars, gateVars, resVars, histVars, watchVars,
                     smartVars, earnVars, fmpThreadVars>>

\* what Yahoo's sequential batches leave alone
notSmartVars == <<alertVars, gateVars, resVars, histVars, watchVars,
                  intervalVars, earnVars, fmpThreadVars>>

\* what the earnings calendar leaves alone
notEarnVars == <<alertVars, gateVars, resVars, histVars, watchVars,
                 intervalVars, smartVars, fmpThreadVars>>

\* what the threads inside the FMP layer leave alone, the resolver apart
notFmpThreadVars == <<alertVars, gateVars, histVars, watchVars, intervalVars,
                      smartVars, earnVars>>

----------------------------------------------------------------------------
(* Bounds of the model *)

\* history counters saturate here
MaxCount == 2

\* the gate clock stops after this many steps
MaxGateSteps == 8

----------------------------------------------------------------------------
(* Alert evaluators: check_and_notify_52_week_highs and                    *)
(* check_and_notify_buy_dip_opportunities                                  *)

\* STOCKS_TO_CHECK, loaded once at import (config.py)
STOCKS_TO_CHECK == <<"AAPL", "MSFT">>

Symbols == {STOCKS_TO_CHECK[i] : i \in 1..Len(STOCKS_TO_CHECK)}

\* threshold_pct = 0.5 passed by run_52_week_high_alerts, in tenths of a percent
HighThresholdTenths == 5

\* BUY_DIP_THRESHOLD_PCT, in percent
BUY_DIP_THRESHOLD_PCT == 10

\* bounds of the watch zone of the 52-week-high check, in percent
WatchZoneFar == 15

WatchZoneNear == 5

NoQuoteObs == [price |-> 0, high |-> 0]

\* Quotes the resolver may hand to a run: (price, 52-week high) in mills.
\* 299496 and 299504 both round to 299.50; 301000 is a new high; 270000 is
\* exactly 10% below 300000; 300500 is another 52-week-high value.
Observations ==
    { [price |-> 299496, high |-> 300000],
      [price |-> 299504, high |-> 300000],
      [price |-> 301000, high |-> 300000],
      [price |-> 299496, high |-> 300500],
      [price |-> 270000, high |-> 300000],
      NoQuoteObs }

\* The second symbol of the watchlist sees a smaller set of quotes.
ObsOf(s) ==
    IF s = STOCKS_TO_CHECK[1] THEN Observations
    ELSE { [price |-> 299496, high |-> 300000],
           [price |-> 270000, high |-> 300000],
           NoQuoteObs }

\* Quote tables of the runs with a working transport
AllQuotes == { q \in [Symbols -> Observations] : \A s \in Symbols : q[s] \in ObsOf(s) }

\* Quote tables of the runs with a failing transport: each symbol is either
\* near its high or exactly at the dip threshold.
FewQuotes ==
    [Symbols -> { [price |-> 299496, high |-> 300000],
                  [price |-> 270000, high |-> 300000] }]

\* f"{x:.2f}": a price in mills formatted to cents
Cents(p) == (p + 5) \div 10

\* pct_from_high >= -threshold_pct, with pct_from_high =
\* ((current_price - year_high) / year_high) * 100
WithinThreshold(o) ==
    (o.price - o.high) * 1000 >= -(HighThresholdTenths * o.high)

\* -15.0 <= pct_from_high <= -5.0
InWatchZone(o) ==
    /\ (o.price - o.high) * 100 >= -(WatchZoneFar * o.high)
    /\ (o.price - o.high) * 100 <= -(WatchZoneNear * o.high)

\* A comparison that leaves out a drop of exactly the threshold.
DipReached_strict(o) ==
    (o.high - o.price) * 100 > BUY_DIP_THRESHOLD_PCT * o.high

\* drop_from_high >= dip_threshold_pct
DipReached(o) ==
    (o.high - o.price) * 100 >= BUY_DIP_THRESHOLD_PCT * o.high

\* alert_key = f"{symbol}_{year_high}_{current_price:.2f}"
HighKey(s, o) == <<s, "high", o.high, Cents(o.price)>>

\* near_high_key = f"{symbol}_near_high_{int(abs(pct_from_high))}"
NearHighKey(s, o) == <<s, "near_high", ((o.high - o.price) * 100) \div o.high, 0>>

\* dip_alert_key = f"{symbol}_dip_{current_price:.2f}_{year_high:.2f}"
DipKey(s, o) == <<s, "dip", Cents(o.price), Cents(o.high)>>

NoKey == <<"", "none", 0, 0>>

\* The key an evaluator of kind k derives from quote o of symbol s, or NoKey
\* when the quote triggers nothing (if current_price and year_high: ...).
AlertKey(k, s, o) ==
    IF o.price = 0 \/ o.high = 0 THEN NoKey
    ELSE IF k = "high" THEN
        IF WithinThreshold(o) THEN HighKey(s, o)
        ELSE IF InWatchZone(o) THEN NearHighKey(s, o)
        ELSE NoKey
    ELSE IF DipReached(o) THEN DipKey(s, o)
    ELSE NoKey

Kinds == {"high", "dip"}

AllKeys ==
    { AlertKey(k, s, o) : k \in Kinds, s \in Symbols, o \in Observations }
        \ {NoKey}

Bump(n) == IF n < MaxCount THEN n + 1 ELSE n

\* A get_log that forgets the file: every run starts from an empty list.
get_log_forgets(file) == {}

\* get_log: the run's list is the content of the log file
get_log(file) == file

\* A dedup test that lets any entry of the symbol suppress the alert.
Logged_by_symbol(key, log) ==
    \E k \in log : k[1] = key[1] /\ k[2] = key[2]

\* alert_key in high_log: the test is on the whole key
Logged(key, log) == key \in log

\* After the symbol at idx is done: the for loop moves on or the run ends.
NextSymbol ==
    IF idx < Len(STOCKS_TO_CHECK)
    THEN /\ idx' = idx + 1
         /\ apc' = "loop"
    ELSE /\ idx' = 0
         /\ apc' = "idle"

\* How reading the log file can end: json.load returns the list, or open /
\* json.load raises and the except branch of get_log returns [].
LoadOutcomes == {"ok", "error"}

load_log(file, outcome) ==
    IF outcome = "ok" THEN get_log(file) ELSE {}

\* Entry of the evaluator: load the log, fetch the quotes of the watchlist.
StartRunWith(tables, loads) ==
    /\ apc = "idle"
    /\ \E o \in loads : memLog' = load_log(fileLog, o)
    /\ \E q \in tables : quotes' = q
    /\ idx' = 1
    /\ apc' = "loop"
    /\ cur' = NoKey
    /\ runStart' = [ran |-> TRUE,
                    same |-> runStart.ran /\ quotes' = quotes,
                    log |-> fileLog, sent |-> sent]
    /\ UNCHANGED <<kind, fileLog, sent, seen>>
    /\ UNCHANGED notAlertVars

\* A run whose log file is read without error.
StartRun(tables) == StartRunWith(tables, {"ok"})

\* One iteration of "for stock in STOCKS_TO_CHECK" up to the send:
\* the key is appended to the in-memory list before the message goes out.
CheckSymbol ==
    /\ apc = "loop"
    /\ LET s == STOCKS_TO_CHECK[idx]
           key == AlertKey(kind, s, quotes[s])
       IN IF key = NoKey
          THEN /\ NextSymbol
               /\ UNCHANGED <<memLog, cur, seen>>
          ELSE /\ seen' = [seen EXCEPT ![key] = Bump(@)]
               /\ IF Logged(key, memLog)
                  THEN /\ NextSymbol
                       /\ UNCHANGED <<memLog, cur>>
                  ELSE /\ memLog' = memLog \cup {key}
                       /\ cur' = key
                       /\ apc' = "send"
                       /\ idx' = idx
    /\ UNCHANGED <<kind, fileLog, quotes, sent, runStart>>
    /\ UNCHANGED notAlertVars

\* send_telegram_message(message) for the alert of key cur.
\*   ok    : the call returns normally, the message is sent
\*   raise : requests raises (connection error, HTTP error other than 400)
SendAlert(outcomes) ==
    /\ apc = "send"
    /\ \E o \in outcomes :
         \/ /\ o = "ok"
            /\ sent' = [sent EXCEPT ![cur] = Bump(@)]
            /\ apc' = "save"
         \/ /\ o = "raise"
            /\ sent' = sent
            /\ apc' = "handler"
    /\ UNCHANGED <<kind, fileLog, memLog, idx, quotes, cur, seen, runStart>>
    /\ UNCHANGED notAlertVars

\* json.dump(high_log, f): the whole in-memory list replaces the file.
SaveLog ==
    /\ apc = "save"
    /\ fileLog' = memLog
    /\ NextSymbol
    /\ UNCHANGED <<kind, memLog, quotes, cur, sent, seen, runStart>>
    /\ UNCHANGED notAlertVars

\* except Exception as e: send_telegram_message(f"Error checking ...").
\* If this send raises too, the exception leaves the evaluator for the
\* except clause of the worker's run_..._alerts method.
ErrorHandler(outcomes) ==
    /\ apc = "handler"
    /\ \E o \in outcomes :
         \/ /\ o = "ok"
            /\ NextSymbol
         \/ /\ o = "raise"
            /\ apc' = "wrapper"
            /\ idx' = idx
    /\ UNCHANGED <<kind, fileLog, memLog, quotes, cur, sent, seen, runStart>>
    /\ UNCHANGED notAlertVars

\* run_52_week_high_alerts / run_buy_dip_alerts: 'except Exception as e:
\* send_telegram_message(error_msg)'. When the send returns, the worker
\* thread goes back to its sleep; when it raises, the exception ends the
\* thread function and the thread with it.
RunHandler(outcomes) ==
    /\ apc = "wrapper"
    /\ \E o \in outcomes :
         \/ /\ o = "ok"
            /\ apc' = "idle"
         \/ /\ o = "raise"
            /\ apc' = "dead"
    /\ idx' = 0
    /\ UNCHANGED <<kind, fileLog, memLog, quotes, cur, sent, seen, runStart>>
    /\ UNCHANGED notAlertVars

\* The process stops in the middle of a run and is started again; only the
\* file survives.
Crash ==
    /\ apc # "idle"
    /\ apc' = "idle"
    /\ idx' = 0
    /\ memLog' = {}
    /\ cur' = NoKey
    /\ UNCHANGED <<kind, fileLog, quotes, sent, seen, runStart>>
    /\ UNCHANGED notAlertVars

AlertsAtRest ==
    /\ fileLog = {}
    /\ memLog = {}
    /\ apc = "idle"
    /\ idx = 0
    /\ quotes = [s \in Symbols |-> NoQuoteObs]
    /\ cur = NoKey
    /\ sent = [k \in AllKeys |-> 0]
    /\ seen = [k \in AllKeys |-> 0]
    /\ runStart = [ran |-> FALSE, same |-> FALSE, log |-> {},
                   sent |-> [k \in AllKeys |-> 0]]

WorkingTransport == {"ok"}

FaultyTransport == {"ok", "raise"}

----------------------------------------------------------------------------
(* Rate-limit gates: _fmp_rate_limit (fmp_hybrid.py) and                   *)
(* _wait_for_rate_limit (yahoo_direct.py), called before every HTTP        *)
(* request by threads that share the module-level timestamp                *)

\* FMP_REQUEST_DELAY = 0.5 s
FMP_REQUEST_DELAY == 500

\* RATE_LIMIT_DELAY = 20.0 s
RATE_LIMIT_DELAY == 20000

Providers == {"fmp", "yahoo"}

\* worker threads started by schedule_alerts that reach the same gate
Threads == {1, 2}

\* _MIN_ALERT_SPACING = 30 s, the gate in front of every alert-type run
MIN_ALERT_SPACING == 30000

\* the gates: one per provider, and _rate_limit_alert of the bot
Gates == Providers \cup {"alert"}

MinInterval(p) ==
    IF p = "fmp" THEN FMP_REQUEST_DELAY
    ELSE IF p = "yahoo" THEN RATE_LIMIT_DELAY
    ELSE MIN_ALERT_SPACING

\* random.uniform(0.5, 1.5), in halves
JitterHalves == {1, 2, 3}

\* The time.sleep argument of the gate of provider p after `elapsed` ms:
\*   fmp  : FMP_REQUEST_DELAY - time_since_last
\*   yahoo: (RATE_LIMIT_DELAY - elapsed) * jitter
\*   alert: _MIN_ALERT_SPACING - elapsed
SleepTimes(p, elapsed) ==
    IF p = "fmp" THEN {FMP_REQUEST_DELAY - elapsed}
    ELSE IF p = "yahoo"
    THEN { ((RATE_LIMIT_DELAY - elapsed) * j) \div 2 : j \in JitterHalves }
    ELSE {MIN_ALERT_SPACING - elapsed}

\* the clock advances in steps of half the provider's interval
GateStep == MinInterval(gprov) \div 2

NoTime == -1

\* First half of the gate: read the clock and the shared timestamp, and
\* either go to sleep or fall through to the assignment.
GateEnter(t) ==
    /\ gpc[t] = "idle"
    /\ LET elapsed == gnow - last_request
       IN IF elapsed < MinInterval(gprov)
          THEN \E d \in SleepTimes(gprov, elapsed) :
                  /\ wake' = [wake EXCEPT ![t] = gnow + d]
                  /\ gpc' = [gpc EXCEPT ![t] = "sleep"]
          ELSE /\ gpc' = [gpc EXCEPT ![t] = "stamp"]
               /\ wake' = wake
    /\ UNCHANGED <<gprov, gnow, last_request, lastSent, lastGap>>
    /\ UNCHANGED notGateVars

\* time.sleep returns once its duration has passed
GateWake(t) ==
    /\ gpc[t] = "sleep"
    /\ gnow >= wake[t]
    /\ gpc' = [gpc EXCEPT ![t] = "stamp"]
    /\ UNCHANGED <<gprov, gnow, last_request, wake, lastSent, lastGap>>
    /\ UNCHANGED notGateVars

\* Second half of the gate, _last_request = time.time(), and the HTTP
\* request (for the alert gate: the alert-type run) that follows it at once.
GatePass(t) ==
    /\ gpc[t] = "stamp"
    /\ last_request' = gnow
    /\ lastSent' = gnow
    /\ lastGap' = IF lastSent = NoTime THEN NoTime ELSE gnow - lastSent
    /\ gpc' = [gpc EXCEPT ![t] = "idle"]
    /\ UNCHANGED <<gprov, gnow, wake>>
    /\ UNCHANGED notGateVars

\* Time passes.
GateTick ==
    /\ gnow + GateStep <= MaxGateSteps * GateStep
    /\ gnow' = gnow + GateStep
    /\ UNCHANGED <<gprov, last_request, gpc, wake, lastSent, lastGap>>
    /\ UNCHANGED notGateVars

\* The module-level timestamp starts at 0 and the process starts long after
\* the epoch: the first request never waits.
GateAtRest ==
    /\ gnow = MinInterval(gprov)
    /\ last_request = 0
    /\ gpc = [t \in Threads |-> "idle"]
    /\ wake = [t \in Threads |-> 0]
    /\ lastSent = NoTime
    /\ lastGap = NoTime

----------------------------------------------------------------------------
(* Provider transports: _make_fmp_request and _make_yahoo_request          *)

\* _FMP_FORBIDDEN_THRESHOLD
FMP_FORBIDDEN_THRESHOLD == 10

\* max_retries of _make_fmp_request
max_retries == 3

\* MAX_RETRIES of yahoo_direct
MAX_RETRIES == 6

\* _HYBRID_QUOTE_TTL = 60.0 s
HYBRID_QUOTE_TTL == 60000

\* CACHE_DURATION = 300 s
CACHE_DURATION == 300000

Min(a, b) == IF a < b THEN a ELSE b

Max(a, b) == IF a > b THEN a ELSE b

\* What one FMP attempt can meet: a 200 with a non-empty list, an empty
\* list or an 'Error Message' object, another status, or an exception.
FmpResponses == {"list", "empty", "errmsg", "403", "404", "500", "429", "exc"}

\* Response sequences of one _make_fmp_request call, one response per attempt.
FmpScripts ==
    { <<r>> : r \in FmpResponses \ {"429", "exc"} }
    \cup { <<"429", "list">>, <<"exc", "429", "exc", "429">> }

\* A breaker that needs one 403 more than the threshold.
Trips_late(n) == n > FMP_FORBIDDEN_THRESHOLD

\* _fmp_consecutive_forbidden >= _FMP_FORBIDDEN_THRESHOLD
Trips(n) == n >= FMP_FORBIDDEN_THRESHOLD

\* The run of consecutive 403 responses after one more FMP response; once
\* the run has reached the threshold, that stays on record.
After403(run, resp) ==
    IF run >= FMP_FORBIDDEN_THRESHOLD THEN run
    ELSE IF resp = "403" THEN run + 1 ELSE 0

\* A loop that allows one attempt more.
FmpRetries_once_more(resp, attempt) ==
    resp \in {"429", "exc"} /\ attempt < max_retries + 1

\* A loop that retries a 403 as well.
FmpRetries_forbidden(resp, attempt) ==
    resp \in {"429", "exc", "403"} /\ attempt < max_retries

\* Whether the for loop of _make_fmp_request goes on to another attempt
\* after attempt number `attempt` (from 0) was answered resp: only a 429
\* and an exception are retried, while attempt < max_retries.
FmpRetries(resp, attempt) ==
    resp \in {"429", "exc"} /\ attempt < max_retries

\* One attempt of _make_fmp_request answered resp. w is the resolver state
\* threaded through the call; w.data receives the return value ("None"
\* when the request yields nothing).
FmpAttempt(w, resp) ==
    LET w1 == [w EXCEPT !.fmpReqs = Min(@ + 1, w.cap), !.run = After403(@, resp)]
    IN  IF resp = "403" THEN
            [w1 EXCEPT !.forb = @ + 1,
                       !.en = IF Trips(w.forb + 1) THEN FALSE ELSE @,
                       !.data = "None"]
        ELSE IF resp \in {"429", "exc", "404", "500", "errmsg"} THEN
            [w1 EXCEPT !.data = "None"]
        ELSE [w1 EXCEPT !.forb = 0, !.data = resp]

\* The retry loop of _make_fmp_request from attempt `attempt` on.
RECURSIVE FmpLoop(_, _, _)
FmpLoop(w, script, attempt) ==
    LET resp == script[attempt + 1]
        w1 == FmpAttempt(w, resp)
    IN  IF FmpRetries(resp, attempt)
        THEN FmpLoop(w1, script, attempt + 1)
        ELSE w1

\* _make_fmp_request(url, params)
make_fmp_request(w, script) ==
    IF ~w.en THEN [w EXCEPT !.data = "None"] ELSE FmpLoop(w, script, 0)

YahooResponses == {"200", "429", "500", "exc", "403", "404"}

\* Response sequences of one _make_yahoo_request call.
YahooScripts ==
    { <<r>> : r \in {"200", "403", "404"} }
    \cup { <<"429", "200">>,
           <<"429", "500", "exc", "429", "500", "exc">> }

\* Whether the for loop of _make_yahoo_request goes on to another attempt
\* after attempt number `attempt` (from 0) was answered resp: a 200 returns,
\* 403 and 404 break, everything else is retried while attempts are left.
YahooRetries(resp, attempt) ==
    resp \notin {"200", "403", "404"} /\ attempt + 1 < MAX_RETRIES

\* One attempt of _make_yahoo_request answered resp.
YahooAttempt(w, resp) ==
    [w EXCEPT !.yReqs = Min(@ + 1, w.cap),
              !.data = IF resp = "200" THEN "json" ELSE "None"]

\* The for loop of _make_yahoo_request from attempt `attempt` on.
RECURSIVE YahooLoop(_, _, _)
YahooLoop(w, script, attempt) ==
    LET resp == script[attempt + 1]
        w1 == YahooAttempt(w, resp)
    IN  IF YahooRetries(resp, attempt)
        THEN YahooLoop(w1, script, attempt + 1)
        ELSE w1

\* _make_yahoo_request(url)
make_yahoo_request(w, script) == YahooLoop(w, script, 0)

----------------------------------------------------------------------------
(* Hybrid resolver: get_hybrid_stock_quote, get_multiple_hybrid_quotes,    *)
(* get_yahoo_quote, get_yahoo_batch_quotes, get_stock_quote,               *)
(* get_multiple_stock_quotes                                               *)

\* prices carried by provider payloads and by the mock quote, in cents
FmpPrice == 15000

YahooPrice == 15100

MockPrice == 17500

\* A quote dict. source "absent" is a dict without the 'source' key;
\* synthetic is a ghost field: the dict came from create_mock_quote.
Quote(src, p) ==
    [kind |-> "quote", source |-> src, price |-> p, synthetic |-> FALSE]

None == [kind |-> "None", source |-> "absent", price |-> 0, synthetic |-> FALSE]

\* an exception leaves the function instead of a value
Raised == [kind |-> "raised", source |-> "absent", price |-> 0, synthetic |-> FALSE]

EmptyMap == [x \in {} |-> None]

\* A mock generator that gives up.
create_mock_quote_none(symbol) == None

\* create_mock_quote(symbol): base price with a small variation, no 'source'
create_mock_quote(symbol) ==
    [kind |-> "quote", source |-> "absent", price |-> MockPrice, synthetic |-> TRUE]

\* ts and (time.time() - ts) < _HYBRID_QUOTE_TTL
IsFresh(age) == age # NoTime /\ age < HYBRID_QUOTE_TTL

\* _get_hybrid_cached_quote(symbol), evaluated when the call starts
get_hybrid_cached_quote(symbol) ==
    IF IsFresh(hybrid_quote_age[symbol]) THEN hybrid_quote_cache[symbol] ELSE None

\* _set_hybrid_cached_quote(symbol, data)
set_hybrid_cached_quote(w, symbol, data) ==
    [w EXCEPT !.hq[symbol] = data, !.written = @ \cup {symbol}]

\* The resolver state a call starts from, with the call's own bookkeeping:
\* requests issued, symbols served from the cache, symbols for which Yahoo
\* was tried, symbols for which a provider gave a quote with price > 0,
\* symbols for which FMP gave a quote with price <= 0, symbols whose quote
\* Yahoo sent in this call, symbols whose quote came out of Yahoo's cache,
\* symbols named in a quote request to FMP, symbols whose returned quote is
\* Yahoo's.
\* Requests of one call are counted up to the number beyond which neither its
\* record nor the time its Yahoo waits take can tell two counts apart.
ReqCap(dmin) ==
    IF dmin = 0 THEN MaxCount
    ELSE Max(MaxCount, 1 + (HYBRID_QUOTE_TTL \div dmin))

World(dmin) ==
    [en |-> FMP_ENABLED, forb |-> fmp_consecutive_forbidden, run |-> run403,
     hq |-> hybrid_quote_cache, names |-> company_name_cache,
     yq |-> yahoo_quote_cache, yvalid |-> yahoo_cache_valid,
     data |-> "None", fmpReqs |-> 0, yReqs |-> 0, cap |-> ReqCap(dmin),
     hits |-> {}, written |-> {}, ytried |-> {}, fgood |-> {}, ygood |-> {},
     fzero |-> {}, fmp_served |-> {}, yfetched |-> {}, yhits |-> {},
     fasked |-> {}, yserved |-> {},
     results |-> EmptyMap]

\* what a 200 from Yahoo's chart endpoint can hold for one symbol
YahooBodies == {"ok", "zero", "bad", "nores"}

\* what FMP's quote list can hold for one symbol
FmpItems == {"ok", "zero", "bad"}

\* float(quote.get('price', 0))
FmpItemPrice(item) == IF item = "ok" THEN FmpPrice ELSE 0

\* meta.get('regularMarketPrice', 0)
YahooItemPrice(body) == IF body = "ok" THEN YahooPrice ELSE 0

\* get_yahoo_quote(symbol): the possible (state, quote) pairs
get_yahoo_quote(w, symbol, env) ==
    LET w0 == [w EXCEPT !.ytried = @ \cup {symbol}]
    IN  IF "quote" \in w.yvalid[symbol]
        THEN { [w |-> [w0 EXCEPT !.yhits = @ \cup {symbol},
                                 !.ygood = IF w.yq[symbol].price > 0
                                           THEN @ \cup {symbol} ELSE @],
                q |-> w.yq[symbol]] }
        ELSE UNION {
               LET w1 == make_yahoo_request(w0, ys)
               IN  IF w1.data = "json"
                   THEN { IF body \in {"ok", "zero"}
                          THEN LET q == Quote("absent", YahooItemPrice(body))
                               IN [w |-> [w1 EXCEPT
                                            !.yq[symbol] = q,
                                            !.yvalid[symbol] = @ \cup {"quote"},
                                            !.yfetched = @ \cup {symbol},
                                            !.ygood = IF q.price > 0
                                                      THEN @ \cup {symbol} ELSE @],
                                   q |-> q]
                          ELSE [w |-> w1, q |-> None]
                          : body \in env.bodies }
                   ELSE { [w |-> w1, q |-> None] }
               : ys \in env.ys }

\* get_yahoo_company_info(symbol): it never provides the 'longName' that
\* add_company_name_to_cache looks for, so only the state matters
get_yahoo_company_info(w, symbol, env) ==
    IF "company_info" \in w.yvalid[symbol] THEN {w}
    ELSE UNION {
           LET w1 == make_yahoo_request(w, ys)
           IN  IF w1.data = "json"
               THEN { [w1 EXCEPT !.yvalid[symbol] = @ \cup {"company_info"}], w1 }
               ELSE {w1}
           : ys \in env.ys }

\* answers to the direct quote request of add_company_name_to_cache
NameResponses == {"name", "noname", "403", "other"}

\* add_company_name_to_cache(symbol) from _rate_limit_fmp() on: the
\* request to FMP and, without a name in its answer, Yahoo's company info
NameRequest(w, symbol, env) ==
    UNION { LET w1 == [w EXCEPT !.fmpReqs = Min(@ + 1, w.cap),
                                !.run = After403(@, IF nr = "403" THEN "403" ELSE "200")]
            IN  IF nr = "name"
                THEN { [w1 EXCEPT !.names = @ \cup {symbol}] }
                ELSE get_yahoo_company_info(w1, symbol, env)
            : nr \in env.names }

\* add_company_name_to_cache(symbol) without a name: one gated request to
\* FMP outside _make_fmp_request, then Yahoo's company info
add_company_name_to_cache(w, symbol, env) ==
    IF w.en THEN NameRequest(w, symbol, env)
    ELSE get_yahoo_company_info(w, symbol, env)

\* get_company_name(symbol)
get_company_name(w, symbol, env) ==
    IF symbol \in w.names THEN {w}
    ELSE add_company_name_to_cache(w, symbol, env)

\* "Fallback to Yahoo" of get_hybrid_stock_quote
YahooFallback(w, symbol, env) ==
    { IF o.q.kind = "quote"
      THEN LET q == [o.q EXCEPT !.source = "yahoo"]
           IN [w |-> [set_hybrid_cached_quote(o.w, symbol, q) EXCEPT
                        !.yserved = @ \cup {symbol}],
               q |-> q]
      ELSE [w |-> o.w, q |-> None]
      : o \in get_yahoo_quote(w, symbol, env) }

\* get_hybrid_stock_quote(symbol): the possible (state, result) pairs
get_hybrid_stock_quote(w, symbol, env) ==
    LET cached == get_hybrid_cached_quote(symbol)
    IN  IF cached.kind = "quote"
        THEN { [w |-> [w EXCEPT !.hits = @ \cup {symbol}], q |-> cached] }
        ELSE IF w.en
        THEN UNION {
               LET w1 == make_fmp_request(
                             [w EXCEPT !.fasked = @ \cup {symbol}], fs)
               IN  IF w1.data = "list"
                   THEN UNION {
                          { IF item = "bad"
                            THEN [w |-> w2, q |-> Raised]
                            ELSE LET q == Quote("fmp", FmpItemPrice(item))
                                     w3 == IF q.price > 0
                                           THEN [w2 EXCEPT !.fgood = @ \cup {symbol},
                                                           !.fmp_served = @ \cup {symbol}]
                                           ELSE [w2 EXCEPT !.fzero = @ \cup {symbol},
                                                           !.fmp_served = @ \cup {symbol}]
                                 IN [w |-> set_hybrid_cached_quote(w3, symbol, q),
                                     q |-> q]
                            : w2 \in get_company_name(w1, symbol, env) }
                          : item \in env.items }
                   ELSE YahooFallback(w1, symbol, env)
               : fs \in env.fs }
        ELSE YahooFallback(w, symbol, env)

\* get_stock_quote(symbol) of data_providers: the hybrid quote if it is
\* valid, the mock quote otherwise; w.results holds the returned value
get_stock_quote(w, symbol, env) ==
    { [o.w EXCEPT !.results =
          (symbol :> IF o.q.kind = "quote" /\ o.q.price > 0
                     THEN o.q ELSE create_mock_quote(symbol))]
      : o \in get_hybrid_stock_quote(w, symbol, env) }

Range(seq) == { seq[i] : i \in 1..Len(seq) }

\* the per-symbol loop at the end of get_yahoo_batch_quotes, from index i
RECURSIVE YahooSingles(_, _, _, _, _)
YahooSingles(w, uniq, env, i, map) ==
    IF i > Len(uniq) THEN { [w |-> w, map |-> map] }
    ELSE UNION { YahooSingles(o.w, uniq, env, i + 1,
                              IF o.q.kind = "quote"
                              THEN (uniq[i] :> o.q) @@ map ELSE map)
                 : o \in get_yahoo_quote(w, uniq[i], env) }

\* the item loop of get_yahoo_batch_quotes from index i; an item that
\* cannot be converted ends the function with the quotes made so far
RECURSIVE YahooBatchItems(_, _, _, _, _)
YahooBatchItems(w, uniq, kinds, i, map) ==
    IF i > Len(uniq) THEN [w |-> w, map |-> map]
    ELSE LET sym == uniq[i]
             q == Quote("absent", YahooItemPrice(kinds[sym]))
         IN  IF kinds[sym] = "nores"
             THEN YahooBatchItems(w, uniq, kinds, i + 1, map)
             ELSE IF kinds[sym] = "bad" THEN [w |-> w, map |-> map]
             ELSE YahooBatchItems(
                     [w EXCEPT !.yq[sym] = q,
                               !.yvalid[sym] = @ \cup {"quote"},
                               !.yfetched = @ \cup {sym},
                               !.ygood = IF q.price > 0 THEN @ \cup {sym} ELSE @],
                     uniq, kinds, i + 1, (sym :> q) @@ map)

\* get_yahoo_batch_quotes(symbols): the possible (state, map) pairs
get_yahoo_batch_quotes(w, uniq, env) ==
    LET w0 == [w EXCEPT !.ytried = @ \cup Range(uniq)]
        someItem(kinds) == \E sym \in Range(uniq) : kinds[sym] # "nores"
    IN  UNION {
          LET w1 == make_yahoo_request(w0, ys)
          IN  IF w1.data = "json"
              THEN { YahooBatchItems(w1, uniq, kinds, 1, EmptyMap)
                     : kinds \in { k \in [Range(uniq) -> env.bodies] : someItem(k) } }
                   \cup YahooSingles(w1, uniq, env, 1, EmptyMap)
              ELSE YahooSingles(w1, uniq, env, 1, EmptyMap)
          : ys \in env.ys }

\* the item loop of step 2 of get_multiple_hybrid_quotes from index i; an
\* item that cannot be converted ends step 2
RECURSIVE FmpBatchItems(_, _, _, _)
FmpBatchItems(w, batch, kinds, i) ==
    IF i > Len(batch) THEN w
    ELSE LET sym == batch[i]
             w1 == [w EXCEPT !.names = @ \cup {sym}]
             q == Quote("fmp", FmpItemPrice(kinds[sym]))
         IN  IF kinds[sym] = "absent"
             THEN FmpBatchItems(w, batch, kinds, i + 1)
             ELSE IF kinds[sym] = "bad" THEN w1
             ELSE FmpBatchItems(
                     [set_hybrid_cached_quote(w1, sym, q) EXCEPT
                        !.results = (sym :> q) @@ @,
                        !.fmp_served = @ \cup {sym},
                        !.fgood = IF q.price > 0 THEN @ \cup {sym} ELSE @,
                        !.fzero = IF q.price > 0 THEN @ ELSE @ \cup {sym}],
                     batch, kinds, i + 1)

\* step 3 of get_multiple_hybrid_quotes: tag and cache Yahoo's quotes
RECURSIVE TagYahoo(_, _, _, _)
TagYahoo(w, yahoo_symbols, map, i) ==
    IF i > Len(yahoo_symbols) THEN w
    ELSE LET sym == yahoo_symbols[i]
             q == [map[sym] EXCEPT !.source = "yahoo"]
         IN  IF sym \in DOMAIN map
             THEN TagYahoo([set_hybrid_cached_quote(w, sym, q) EXCEPT
                              !.results = (sym :> q) @@ @,
                              !.yserved = @ \cup {sym}],
                           yahoo_symbols, map, i + 1)
             ELSE TagYahoo(w, yahoo_symbols, map, i + 1)

\* A step 3 that asks Yahoo for every symbol the cache did not serve.
YahooSymbols_all(remaining, fmp_served) == remaining

\* yahoo_symbols = [s for s in remaining if s.upper() not in set(fmp_served)]
YahooSymbols(remaining, fmp_served) ==
    SelectSeq(remaining, LAMBDA sym : sym \notin fmp_served)

\* get_multiple_hybrid_quotes(symbols, max_fmp_calls) for a list no longer
\* than max_fmp_calls (one FMP batch): the possible states, the returned
\* map in w.results
get_multiple_hybrid_quotes(w, symbols, env) ==
    LET fresh(sym) == get_hybrid_cached_quote(sym).kind = "quote"
        cachedSyms == { sym \in Range(symbols) : fresh(sym) }
        remaining == SelectSeq(symbols, LAMBDA sym : ~fresh(sym))
        w0 == [w EXCEPT !.hits = cachedSyms,
                        !.results = [sym \in cachedSyms |->
                                        get_hybrid_cached_quote(sym)]]
        afterFmp ==
            IF w0.en
            THEN UNION {
                   LET w1 == make_fmp_request(
                                 [w0 EXCEPT !.fasked = Range(remaining)], fs)
                   IN  IF w1.data = "list"
                       THEN { FmpBatchItems(w1, remaining, kinds, 1)
                              : kinds \in [Range(remaining) ->
                                             env.items \cup {"absent"}] }
                       ELSE {w1}
                   : fs \in env.fs }
            ELSE {w0}
        yahooStep(w2) ==
            LET yahoo_symbols == YahooSymbols(remaining, w2.fmp_served)
            IN  IF yahoo_symbols = <<>> THEN {w2}
                ELSE { TagYahoo(o.w, yahoo_symbols, o.map, 1)
                       : o \in get_yahoo_batch_quotes(w2, yahoo_symbols, env) }
    IN  IF remaining = <<>> THEN {w0}
        ELSE UNION { yahooStep(w2) : w2 \in afterFmp }

\* get_multiple_stock_quotes(symbols) of data_providers, hybrid branch: mock
\* quotes for the symbols the hybrid map lacks
get_multiple_stock_quotes(w, symbols, env) ==
    { [w1 EXCEPT !.results =
          [sym \in Range(symbols) |->
              IF sym \in DOMAIN w1.results THEN w1.results[sym]
              ELSE create_mock_quote(sym)]]
      : w1 \in get_multiple_hybrid_quotes(w, symbols, env) }

\* get_yahoo_history(symbol, period): the possible (state, found) pairs
get_yahoo_history(w, symbol, env) ==
    IF "history" \in w.yvalid[symbol] THEN { [w |-> w, found |-> TRUE] }
    ELSE UNION {
           LET w1 == make_yahoo_request(w, ys)
           IN  IF w1.data = "json"
               THEN { [w |-> [w1 EXCEPT !.yvalid[symbol] = @ \cup {"history"}],
                       found |-> TRUE],
                      [w |-> w1, found |-> FALSE] }
               ELSE { [w |-> w1, found |-> FALSE] }
           : ys \in env.ys }

\* get_historical_prices(symbol) of data_providers, down to the providers
\* it contacts: get_hybrid_stock_history (FMP, then Yahoo), then Yahoo
\* directly, then mock data
get_historical_prices(w, symbol, env) ==
    LET yahooPart(w0) ==
            UNION { IF o.found THEN {o.w}
                    ELSE { o2.w : o2 \in get_yahoo_history(o.w, symbol, env) }
                    : o \in get_yahoo_history(w0, symbol, env) }
    IN  IF w.en
        THEN UNION { LET w1 == make_fmp_request(w, fs)
                     IN  IF w1.data = "list"
                         THEN {w1} \cup yahooPart(w1)
                         ELSE yahooPart(w1)
                     : fs \in env.fs }
        ELSE yahooPart(w)

\* the shortest jittered wait of _wait_for_rate_limit after a request
YahooMinWait == RATE_LIMIT_DELAY \div 2

\* Least time a call spends in Yahoo's gate for k requests, when the gate
\* waits at least dmin after a request (0: waits are not modelled).
YahooWait(k, dmin) ==
    IF k = 0 THEN 0 ELSE Max(0, dmin - yahoo_since) + (k - 1) * dmin

AgeBy(age, d) ==
    IF age = NoTime THEN NoTime ELSE Min(age + d, HYBRID_QUOTE_TTL)

\* The age of a cached quote d later. An entry that has reached the TTL is
\* never returned again, only overwritten: from then on it is represented
\* like a missing entry.
Aged(age, d) ==
    IF age = NoTime \/ age + d >= HYBRID_QUOTE_TTL THEN NoTime ELSE age + d

NoPrev == [age |-> NoTime, reqs |-> 0]

\* The end of a resolver call: the module state it leaves, and its record.
Finish(op, syms, w, dmin) ==
    LET d == YahooWait(w.yReqs, dmin)
        age == [s \in Symbols |-> IF s \in w.written THEN 0
                                  ELSE Aged(hybrid_quote_age[s], d)]
        \* time since Yahoo sent the quote its cache holds
        yq == [s \in Symbols |->
                 IF w.yq[s].kind # "quote" THEN NoTime
                 ELSE IF s \in w.yfetched THEN 0
                 ELSE AgeBy(fetched.yq[s], d)]
        \* time since a provider sent the quote the hybrid cache holds
        hq == [s \in Symbols |->
                 IF age[s] = NoTime THEN NoTime
                 ELSE IF s \in w.written
                 THEN IF s \in w.yhits THEN yq[s] ELSE 0
                 ELSE AgeBy(fetched.hq[s], d)]
    IN  [en |-> w.en, forb |-> w.forb, run |-> w.run,
         age |-> age, fetched |-> [hq |-> hq, yq |-> yq],
         hq |-> [s \in Symbols |-> IF age[s] = NoTime THEN None ELSE w.hq[s]],
         names |-> w.names, yq |-> w.yq, yvalid |-> w.yvalid,
         since |-> IF w.yReqs > 0 THEN 0
                   ELSE Min(yahoo_since + d, RATE_LIMIT_DELAY),
         sinceCall |-> Min(d, HYBRID_QUOTE_TTL),
         call |->
              [op |-> op, syms |-> syms, results |-> w.results,
               fmpReqs |-> Min(w.fmpReqs, MaxCount),
               reqs |-> Min(w.fmpReqs + w.yReqs, MaxCount),
               hits |-> w.hits, ytried |-> w.ytried,
               fgood |-> w.fgood, ygood |-> w.ygood, fzero |-> w.fzero,
               yhits |-> w.yhits, fasked |-> w.fasked,
               fmp_served |-> w.fmp_served, yserved |-> w.yserved,
               stale |-> { s \in w.hits : fetched.hq[s] >= HYBRID_QUOTE_TTL }
                         \cup { s \in w.yhits : fetched.yq[s] >= HYBRID_QUOTE_TTL },
               after403 |-> run403 >= FMP_FORBIDDEN_THRESHOLD,
               prev |-> IF op = "quote" /\ lastCall.op = "quote"
                           /\ lastCall.syms = syms
                        THEN [age |-> sinceCall, reqs |-> lastCall.reqs]
                        ELSE NoPrev]]

\* the module state a resolver call leaves
Apply(o) ==
    /\ FMP_ENABLED' = o.en
    /\ fmp_consecutive_forbidden' = o.forb
    /\ run403' = o.run
    /\ hybrid_quote_age' = o.age
    /\ hybrid_quote_cache' = o.hq
    /\ company_name_cache' = o.names
    /\ yahoo_quote_cache' = o.yq
    /\ yahoo_cache_valid' = o.yvalid
    /\ yahoo_since' = o.since
    /\ sinceCall' = o.sinceCall
    /\ lastCall' = o.call
    /\ fetched' = o.fetched
    /\ UNCHANGED treq

Return(o) ==
    /\ Apply(o)
    /\ UNCHANGED notResVars

\* A caller asks get_stock_quote for one symbol.
GetStockQuote(symbol, env, dmin) ==
    \E o \in { Finish("quote", <<symbol>>, w, dmin)
               : w \in get_stock_quote(World(dmin), symbol, env) } : Return(o)

\* A caller asks get_multiple_stock_quotes for a list of symbols.
GetMultipleStockQuotes(symbols, env, dmin) ==
    \E o \in { Finish("batch", symbols, w, dmin)
               : w \in get_multiple_stock_quotes(World(dmin), symbols, env) } : Return(o)

\* A caller asks get_historical_prices for one symbol.
GetHistory(symbol, env, dmin) ==
    \E o \in { Finish("history", <<symbol>>, w, dmin)
               : w \in get_historical_prices(World(dmin), symbol, env) } : Return(o)

\* The record of a time without a call.
NoCall ==
    [op |-> "none", syms |-> <<>>, results |-> EmptyMap,
     fmpReqs |-> 0, reqs |-> 0, hits |-> {}, ytried |-> {},
     fgood |-> {}, ygood |-> {}, fzero |-> {}, yhits |-> {}, stale |-> {},
     fasked |-> {}, fmp_served |-> {}, yserved |-> {},
     after403 |-> FALSE, prev |-> NoPrev]

\* Time passes between calls: cached quotes age; after CACHE_DURATION
\* without a call, Yahoo's cache entries are no longer valid (and, never
\* read again, are represented like missing entries) and the last call is
\* too long ago to be kept on record.
Advance(d) ==
    /\ hybrid_quote_age' = [s \in Symbols |-> Aged(hybrid_quote_age[s], d)]
    /\ hybrid_quote_cache' =
          [s \in Symbols |-> IF hybrid_quote_age'[s] = NoTime THEN None
                             ELSE hybrid_quote_cache[s]]
    /\ sinceCall' = IF d >= CACHE_DURATION THEN NoTime
                     ELSE AgeBy(sinceCall, d)
    /\ lastCall' = IF d >= CACHE_DURATION THEN NoCall ELSE lastCall
    /\ yahoo_since' = Min(yahoo_since + d, RATE_LIMIT_DELAY)
    /\ yahoo_cache_valid' =
          IF d >= CACHE_DURATION THEN [s \in Symbols |-> {}]
          ELSE yahoo_cache_valid
    /\ yahoo_quote_cache' =
          IF d >= CACHE_DURATION THEN [s \in Symbols |-> None]
          ELSE yahoo_quote_cache
    /\ fetched' =
          [hq |-> [s \in Symbols |->
                     IF hybrid_quote_age'[s] = NoTime THEN NoTime
                     ELSE AgeBy(fetched.hq[s], d)],
           yq |-> [s \in Symbols |->
                     IF yahoo_quote_cache'[s].kind # "quote" THEN NoTime
                     ELSE AgeBy(fetched.yq[s], d)]]
    /\ UNCHANGED <<FMP_ENABLED, fmp_consecutive_forbidden,
                   company_name_cache, run403, treq>>
    /\ UNCHANGED notResVars

Tick == Advance(YahooMinWait)

LongIdle == Advance(CACHE_DURATION)

\* No transport call yet.
NoReq ==
    [prov |-> "none", running |-> FALSE, attempt |-> 0, sent |-> 0,
     data |-> "None", last |-> "none", all429 |-> FALSE,
     forb0 |-> 0, en0 |-> FALSE]

\* Module state right after import, before any call.
ResolverAtRest ==
    /\ fmp_consecutive_forbidden = 0
    /\ hybrid_quote_cache = [s \in Symbols |-> None]
    /\ hybrid_quote_age = [s \in Symbols |-> NoTime]
    /\ company_name_cache = {}
    /\ yahoo_quote_cache = [s \in Symbols |-> None]
    /\ yahoo_cache_valid = [s \in Symbols |-> {}]
    /\ yahoo_since = RATE_LIMIT_DELAY
    /\ run403 = 0
    /\ sinceCall = NoTime
    /\ lastCall = NoCall
    /\ treq = NoReq
    /\ fetched = [hq |-> [s \in Symbols |-> NoTime],
                  yq |-> [s \in Symbols |-> NoTime]]

----------------------------------------------------------------------------
(* The transports attempt by attempt: one step per HTTP attempt of         *)
(* _make_fmp_request and _make_yahoo_request                               *)

\* Entry of _make_fmp_request: 'if not FMP_ENABLED or not FMP_API_KEY:
\* return None', else the for loop starts.
FmpCall ==
    /\ ~treq.running
    /\ treq' = [NoReq EXCEPT !.prov = "fmp", !.running = FMP_ENABLED,
                             !.forb0 = fmp_consecutive_forbidden,
                             !.en0 = FMP_ENABLED]
    /\ UNCHANGED <<FMP_ENABLED, fmp_consecutive_forbidden, hybrid_quote_cache,
                   hybrid_quote_age, company_name_cache, yahoo_quote_cache,
                   yahoo_cache_valid, yahoo_since, run403, sinceCall, lastCall,
                   fetched>>
    /\ UNCHANGED notResVars

\* One iteration of the for loop of _make_fmp_request: the gate, the
\* request, the handling of its answer.
FmpStep ==
    /\ treq.running
    /\ treq.prov = "fmp"
    /\ \E resp \in FmpResponses :
         LET w == FmpAttempt(World(YahooMinWait), resp)
             again == FmpRetries(resp, treq.attempt)
         IN  /\ FMP_ENABLED' = w.en
             /\ fmp_consecutive_forbidden' = w.forb
             /\ run403' = w.run
             /\ treq' = [prov |-> "fmp", running |-> again,
                         attempt |-> treq.attempt + 1,
                         sent |-> treq.sent + w.fmpReqs,
                         data |-> w.data, last |-> resp,
                         all429 |-> (treq.sent = 0 \/ treq.all429) /\ resp = "429",
                         forb0 |-> fmp_consecutive_forbidden,
                         en0 |-> FMP_ENABLED]
    /\ UNCHANGED <<hybrid_quote_cache, hybrid_quote_age, company_name_cache,
                   yahoo_quote_cache, yahoo_cache_valid, yahoo_since,
                   sinceCall, lastCall, fetched>>
    /\ UNCHANGED notResVars

\* Entry of _make_yahoo_request.
YahooCall ==
    /\ ~treq.running
    /\ treq' = [NoReq EXCEPT !.prov = "yahoo", !.running = TRUE,
                             !.forb0 = fmp_consecutive_forbidden,
                             !.en0 = FMP_ENABLED]
    /\ UNCHANGED <<FMP_ENABLED, fmp_consecutive_forbidden, hybrid_quote_cache,
                   hybrid_quote_age, company_name_cache, yahoo_quote_cache,
                   yahoo_cache_valid, yahoo_since, run403, sinceCall, lastCall,
                   fetched>>
    /\ UNCHANGED notResVars

\* One iteration of the for loop of _make_yahoo_request.
YahooStep ==
    /\ treq.running
    /\ treq.prov = "yahoo"
    /\ \E resp \in YahooResponses :
         LET w == YahooAttempt(World(YahooMinWait), resp)
             again == YahooRetries(resp, treq.attempt)
         IN  /\ yahoo_since' = 0
             /\ treq' = [prov |-> "yahoo", running |-> again,
                         attempt |-> treq.attempt + 1,
                         sent |-> treq.sent + w.yReqs,
                         data |-> w.data, last |-> resp,
                         all429 |-> (treq.sent = 0 \/ treq.all429) /\ resp = "429",
                         forb0 |-> fmp_consecutive_forbidden,
                         en0 |-> FMP_ENABLED]
    /\ UNCHANGED <<FMP_ENABLED, fmp_consecutive_forbidden, hybrid_quote_cache,
                   hybrid_quote_age, company_name_cache, yahoo_quote_cache,
                   yahoo_cache_valid, run403, sinceCall, lastCall, fetched>>
    /\ UNCHANGED notResVars

----------------------------------------------------------------------------
(* Historical series: get_hybrid_stock_history, get_yahoo_history,         *)
(* get_mock_historical_data, get_historical_prices.                        *)
(* A date 'YYYY-MM-DD' is the number of its day, a Yahoo timestamp is in   *)
(* hours since day 0, 00:00 UTC.                                           *)

\* most bars in a provider's answer
MaxBars == 3

HistDays == 1..MaxBars

\* period_map.get(period, 365), for the two shortest periods
period_map(period) == IF period = "1d" THEN 1 ELSE 5

HistPeriods == {"1d", "5d"}

\* the close of the bar of a trading day, in dollars
Close(day) == 100 + day

\* What a bar of FMP's list can hold: all fields, a 'close' that float()
\* rejects, or a good 'close' with an 'open' that float() rejects.
FmpBarDefects == {"none", "close", "open"}

FmpBars == [date : HistDays, bad : FmpBarDefects]

Descending(bars) ==
    \A i \in 1..(Len(bars) - 1) : bars[i].date > bars[i + 1].date

\* FMP's historical list: newest first, one bar a day
FmpHistories ==
    { bars \in UNION { [1..n -> FmpBars] : n \in 0..MaxBars } : Descending(bars) }

\* Yahoo's chart: the hour of the market's open, and the latest hour at
\* which the bar of the running day is stamped
MarketOpenHour == 14

MarketCloseHour == 21

\* A chart bar: its timestamp and whether one of open, high, low, close is
\* null.
YahooBars ==
    [ts : { 24 * d + h : d \in HistDays, h \in {MarketOpenHour, MarketCloseHour} },
     null : BOOLEAN]

\* Yahoo's chart: oldest first, one bar a trading day, each stamped at the
\* open except the last, which may be stamped later in its day
YahooHistories ==
    { bars \in UNION { [1..n -> YahooBars] : n \in 0..MaxBars } :
        /\ \A i \in 1..(Len(bars) - 1) :
              /\ bars[i].ts \div 24 < bars[i + 1].ts \div 24
              /\ bars[i].ts % 24 = MarketOpenHour }

\* hours between UTC and the clock of the machine the bot runs on
UtcOffsets == {0 - 8, 0, 10}

\* datetime.fromtimestamp(timestamp).strftime('%Y-%m-%d')
LocalDate(ts, off) == (ts + off) \div 24

\* what a transport call returns: None, or the parsed body with its bars
NoData == [kind |-> "None", bars |-> <<>>]

Json(bars) == [kind |-> "json", bars |-> bars]

FmpAnswers == {NoData} \cup { Json(bars) : bars \in FmpHistories }

YahooAnswers == {NoData} \cup { Json(bars) : bars \in YahooHistories }

EmptySeries == [prices |-> <<>>, dates |-> <<>>, historical_data |-> <<>>]

NoSeries ==
    [kind |-> "None", prices |-> <<>>, dates |-> <<>>,
     historical_data |-> <<>>, source |-> "none"]

Series(lists, src) ==
    [kind |-> "series", prices |-> lists.prices, dates |-> lists.dates,
     historical_data |-> lists.historical_data, source |-> src]

Reverse(seq) == [i \in 1..Len(seq) |-> seq[Len(seq) + 1 - i]]

\* the bar loop of get_hybrid_stock_history from index i: 'except
\* Exception: continue' around three appends
RECURSIVE FmpBarLoop(_, _, _)
FmpBarLoop(historical, i, acc) ==
    IF i > Len(historical) THEN acc
    ELSE LET h == historical[i]
             withClose == [acc EXCEPT !.prices = Append(@, Close(h.date))]
             withDate == [withClose EXCEPT !.dates = Append(@, h.date)]
             withBar == [withDate EXCEPT !.historical_data =
                            Append(@, [date |-> h.date, close |-> Close(h.date)])]
         IN  FmpBarLoop(historical, i + 1,
                        CASE h.bad = "close" -> acc
                          [] h.bad = "open" -> withDate
                          [] OTHER -> withBar)

\* A conversion that keeps the provider's order.
FmpSeries_newest_first(historical, days) ==
    LET recent == IF days < Len(historical)
                  THEN SubSeq(historical, 1, days) ELSE historical
    IN  FmpBarLoop(recent, 1, EmptySeries)

\* historical[:days][::-1], then the bar loop
FmpSeries(historical, days) ==
    LET recent == IF days < Len(historical)
                  THEN SubSeq(historical, 1, days) ELSE historical
    IN  FmpBarLoop(Reverse(recent), 1, EmptySeries)

\* the bar loop of get_yahoo_history from index i
RECURSIVE YahooBarLoop(_, _, _, _)
YahooBarLoop(bars, off, i, acc) ==
    IF i > Len(bars) THEN acc
    ELSE LET date == LocalDate(bars[i].ts, off)
             close == Close(bars[i].ts \div 24)
         IN  YahooBarLoop(bars, off, i + 1,
                IF bars[i].null THEN acc
                ELSE [prices |-> Append(acc.prices, close),
                      dates |-> Append(acc.dates, date),
                      historical_data |->
                          Append(acc.historical_data,
                                 [date |-> date, close |-> close])])

\* get_yahoo_history(symbol, period) for what the request (or the cache)
\* gave: None, or the three lists, which may be empty
yahoo_history(data, off) ==
    IF data.kind = "None" THEN NoSeries
    ELSE Series(YahooBarLoop(data.bars, off, 1, EmptySeries), "yahoo")

\* get_hybrid_stock_history(symbol, period)
get_hybrid_stock_history(en, period, fmp, yahoo, off) ==
    LET lists == FmpSeries(fmp.bars, period_map(period))
    IN  IF en /\ fmp.kind = "json" /\ fmp.bars # <<>>
           /\ lists.prices # <<>> /\ lists.dates # <<>>
        THEN Series(lists, "fmp")
        ELSE yahoo_history(yahoo, off)

\* date.weekday() < 5 for the day numbered d
BusinessDay(d) == d % 7 < 5

RECURSIVE Ascending(_)
Ascending(S) ==
    IF S = {} THEN <<>>
    ELSE LET least == CHOOSE x \in S : \A y \in S : x <= y
         IN  <<least>> \o Ascending(S \ {least})

\* get_mock_historical_data(symbol, days, period):
\* pd.bdate_range(today - int(days * 1.4), today)[:days]
get_mock_historical_data(today, period) ==
    LET days == period_map(period)
        range == Ascending({ d \in (today - (days * 14) \div 10)..today :
                               BusinessDay(d) })
        dates == SubSeq(range, 1, Min(days, Len(range)))
    IN  [kind |-> "series",
         prices |-> [i \in 1..Len(dates) |-> Close(dates[i])],
         dates |-> dates,
         historical_data |-> [i \in 1..Len(dates) |->
                                 [date |-> dates[i], close |-> Close(dates[i])]],
         source |-> "mock"]

\* the days on which the series may be asked for: one of each weekday
MockToday == 14..20

\* get_historical_prices(symbol, period=period): the hybrid series, else
\* Yahoo's (from its cache when the request of the hybrid call was
\* answered, else from a further request that gives again), else the mock
\* series
historical_prices(en, period, fmp, yahoo, off, again, today) ==
    LET result == get_hybrid_stock_history(en, period, fmp, yahoo, off)
        direct == IF yahoo.kind = "None" THEN yahoo_history(again, off)
                  ELSE yahoo_history(yahoo, off)
    IN  IF result.kind = "series" /\ result.prices # <<>> THEN result
        ELSE IF direct.kind = "series" /\ direct.prices # <<>> THEN direct
        ELSE get_mock_historical_data(today, period)

\* what Yahoo can give when it is asked a second time
YahooRetry == {NoData, Json(<<[ts |-> 24 * MaxBars + MarketOpenHour, null |-> FALSE]>>)}

NoHistCall == [NoSeries EXCEPT !.kind = "none"]

\* No series asked for yet.
HistoryAtRest ==
    /\ hreq = [period |-> "1d", fmp |-> NoData, yahoo |-> NoData, off |-> 0]
    /\ hist = NoHistCall

\* a caller asks get_hybrid_stock_history for the series
GetHybridStockHistory ==
    /\ hist = NoHistCall
    /\ hist' = get_hybrid_stock_history(FMP_ENABLED, hreq.period, hreq.fmp,
                                        hreq.yahoo, hreq.off)
    /\ UNCHANGED hreq
    /\ UNCHANGED notHistVars

\* a caller asks get_historical_prices for the series
GetHistoricalPrices ==
    /\ hist = NoHistCall
    /\ \E again \in YahooRetry, today \in MockToday :
          hist' = historical_prices(FMP_ENABLED, hreq.period, hreq.fmp,
                                    hreq.yahoo, hreq.off, again, today)
    /\ UNCHANGED hreq
    /\ UNCHANGED notHistVars

----------------------------------------------------------------------------
(* Watchlist: load_stock_list, save_stock_list, cmd_add_stock,             *)
(* cmd_remove_stock. alerts.py binds its own name STOCKS_TO_CHECK to the   *)
(* list config holds when alerts is imported ('from config import          *)
(* STOCKS_TO_CHECK'); the evaluators iterate over that list.               *)

\* load_stock_list(): list(STOCKS_TO_CHECK) of config, whether the file
\* exists or not
load_stock_list == config_stocks

\* how writing data/stock_list.txt can end
SaveOutcomes == {"ok", "error"}

NoCmd == [cmd |-> "none", symbol |-> "none", reply |-> "none",
          synthetic |-> FALSE, before |-> <<>>]

NoSave == [ok |-> FALSE, list |-> <<>>, midrun |-> FALSE]

\* save_stock_list(stock_list): write the file, then rebind
\* config.STOCKS_TO_CHECK to a new list; an exception (the file may have
\* been truncated by then) returns False
save_stock_list(stock_list, outcome) ==
    IF outcome = "ok"
    THEN /\ stock_file' = stock_list
         /\ config_stocks' = stock_list
         /\ saved' = [ok |-> TRUE, list |-> stock_list, midrun |-> apc # "idle"]
    ELSE /\ stock_file' \in {stock_file, <<>>}
         /\ UNCHANGED <<config_stocks, saved>>

\* cmd_add_stock(args, user_name) with a symbol: the quote of
\* get_stock_quote decides; a successful save also caches the company name
\* the quote carries, if it carries one
CmdAddStock(symbol, env, saves) ==
    LET current_stocks == load_stock_list
        say(reply, quote) ==
            lastCmd' = [cmd |-> "add", symbol |-> symbol, reply |-> reply,
                        synthetic |-> quote.synthetic, before |-> current_stocks]
    IN  /\ IF symbol \in Range(current_stocks)
           THEN /\ say("already", None)
                /\ UNCHANGED <<stock_file, config_stocks, saved>>
                /\ UNCHANGED resVars
           ELSE \E o \in { Finish("quote", <<symbol>>, w, 0)
                           : w \in get_stock_quote(World(0), symbol, env) } :
                  LET quote_data == o.call.results[symbol]
                  IN  IF quote_data.kind # "quote"
                      THEN /\ say("notfound", quote_data)
                           /\ Apply(o)
                           /\ UNCHANGED <<stock_file, config_stocks, saved>>
                      ELSE \E outcome \in saves, named \in BOOLEAN :
                             /\ save_stock_list(Append(current_stocks, symbol),
                                                outcome)
                             /\ IF outcome = "ok"
                                THEN /\ say("added", quote_data)
                                     /\ Apply([o EXCEPT !.names =
                                                 IF named THEN @ \cup {symbol}
                                                 ELSE @])
                                ELSE /\ say("failed", quote_data)
                                     /\ Apply(o)
        /\ UNCHANGED notWatchVars

\* cmd_remove_stock(args, user_name) with a symbol
CmdRemoveStock(symbol, saves) ==
    LET current_stocks == load_stock_list
        say(reply) ==
            lastCmd' = [cmd |-> "remove", symbol |-> symbol, reply |-> reply,
                        synthetic |-> FALSE, before |-> current_stocks]
    IN  /\ IF symbol \notin Range(current_stocks)
           THEN /\ say("notin")
                /\ UNCHANGED <<stock_file, config_stocks, saved>>
                /\ UNCHANGED resVars
           ELSE \E outcome \in saves :
                  /\ save_stock_list(
                        SelectSeq(current_stocks, LAMBDA x : x # symbol), outcome)
                  /\ IF outcome = "ok"
                     THEN /\ say("removed")
                          /\ company_name_cache' = company_name_cache \ {symbol}
                          /\ UNCHANGED <<FMP_ENABLED, fmp_consecutive_forbidden,
                                         hybrid_quote_cache, hybrid_quote_age,
                                         yahoo_quote_cache, yahoo_cache_valid,
                                         yahoo_since, run403, sinceCall,
                                         lastCall, treq, fetched>>
                     ELSE /\ say("failed")
                          /\ UNCHANGED resVars
        /\ UNCHANGED notWatchVars

\* After import: config has loaded the list of the file.
WatchlistAtRest ==
    /\ stock_file = STOCKS_TO_CHECK
    /\ config_stocks = STOCKS_TO_CHECK
    /\ lastCmd = NoCmd
    /\ saved = NoSave

----------------------------------------------------------------------------
(* Intraday interval alerts: run_and_notify_stock_interval and its worker  *)
(* delayed_stock_alerts. Prices and changes are in mills, percentages in   *)
(* hundredths of a percent.                                                *)

\* ALERT_STOCK_INTERVAL, in seconds
ALERT_STOCK_INTERVAL == 3600

\* threshold_pct = 0.5 passed by run_general_stock_alerts
IntervalThreshold == 50

\* the worker's clock stops after this many runs
MaxRuns == 3

\* round(x, 2) of the percentage num / den * 100, in hundredths
RoundPct(num, den) ==
    IF num >= 0 THEN (2 * 10000 * num + den) \div (2 * den)
    ELSE 0 - ((2 * 10000 * (0 - num) + den) \div (2 * den))

\* Quotes a symbol can have: price, change and changePercent as the
\* provider reports them; a provider may report a change without a
\* percentage.
IntervalQuotes ==
    { [price |-> 150000, change |-> 0, pct |-> 0],
      [price |-> 150000, change |-> 450, pct |-> 30],
      [price |-> 150000, change |-> 1800, pct |-> 121],
      [price |-> 150000, change |-> 0 - 1800, pct |-> 0 - 119],
      [price |-> 150004, change |-> 1800, pct |-> 0] }

\* prev_close = current_price - change if change else current_price
PrevClose(q) == q.price - q.change

\* difference_pct: the quote's changePercent unless it is 0, else computed
\* from open and close
DifferencePct(q) ==
    IF q.pct # 0 THEN q.pct
    ELSE IF PrevClose(q) > 0 THEN RoundPct(q.price - PrevClose(q), PrevClose(q))
    ELSE 0

\* price_key = f"{stock}_{latest_price['date']}_{latest_price['close']:.2f}"
\* with date = datetime.now().strftime('%Y-%m-%d %H:%M:%S')
PriceKey(stock, q, now) == <<stock, now, Cents(q.price)>>

\* The worker's time.sleep(ALERT_STOCK_INTERVAL) ends:
\* run_and_notify_stock_interval loads its log and fetches the quotes.
IntervalStart ==
    /\ ipc = "sleep"
    /\ inow < MaxRuns * ALERT_STOCK_INTERVAL
    /\ inow' = inow + ALERT_STOCK_INTERVAL
    /\ prices_log' = prices_file
    /\ iidx' = 1
    /\ ipc' = "loop"
    /\ UNCHANGED <<prices_file, iquotes, isent>>
    /\ UNCHANGED notIntervalVars

\* One iteration of "for stock in STOCKS_TO_CHECK": a key not yet in the
\* log is appended and, beyond the threshold, notified; the log is saved.
\* A send that raises is caught by the iteration's except clause, before
\* the save.
IntervalCheck(outcomes) ==
    /\ ipc = "loop"
    /\ LET stock == STOCKS_TO_CHECK[iidx]
           q == iquotes[stock]
           price_key == PriceKey(stock, q, inow)
           notify == \/ DifferencePct(q) > IntervalThreshold
                     \/ DifferencePct(q) < 0 - IntervalThreshold
       IN  IF price_key \in prices_log
           THEN /\ prices_file' = prices_log
                /\ UNCHANGED <<prices_log, isent>>
           ELSE /\ prices_log' = prices_log \cup {price_key}
                /\ IF notify
                   THEN \E o \in outcomes :
                          IF o = "ok"
                          THEN /\ isent' = [isent EXCEPT ![stock] = Bump(@)]
                               /\ prices_file' = prices_log'
                          ELSE UNCHANGED <<isent, prices_file>>
                   ELSE /\ prices_file' = prices_log'
                        /\ UNCHANGED isent
    /\ IF iidx < Len(STOCKS_TO_CHECK)
       THEN /\ iidx' = iidx + 1
            /\ ipc' = "loop"
       ELSE /\ iidx' = 0
            /\ ipc' = "sleep"
    /\ UNCHANGED <<iquotes, inow>>
    /\ UNCHANGED notIntervalVars

\* The worker asleep before its first run, the log file not yet written.
IntervalAtRest ==
    /\ prices_file = {}
    /\ prices_log = {}
    /\ ipc = "sleep"
    /\ iidx = 0
    /\ iquotes = [s \in Symbols |-> [price |-> 150000, change |-> 0, pct |-> 0]]
    /\ inow = 0
    /\ isent = [s \in Symbols |-> 0]

----------------------------------------------------------------------------
(* Yahoo's sequential batches: get_multiple_quotes and                     *)
(* get_quotes_with_smart_delays                                            *)

\* longest list asked for
MaxSymbols == 4

BatchSymbols == {"AAPL", "MSFT", "GOOGL", "TSLA"}

\* lists of distinct symbols
SymbolLists ==
    { l \in UNION { [1..n -> BatchSymbols] : n \in 0..MaxSymbols } :
        \A i, j \in 1..Len(l) : i # j => l[i] # l[j] }

\* get_multiple_quotes(symbols, use_delays=True): the quotes of the symbols
\* for which get_yahoo_quote gives one
get_multiple_quotes(symbols, good) ==
    [sym \in Range(symbols) \cap good |-> Quote("absent", YahooPrice)]

\* results.update(batch_results)
Update(results, batch_results) == batch_results @@ results

\* the loop 'for i in range(0, len(symbols), max_concurrent)' from offset
\* i: its body ends with 'return results'
SmartBatches(symbols, max_concurrent, good, i, results) ==
    IF i >= Len(symbols) THEN results
    ELSE LET batch == SubSeq(symbols, i + 1,
                             Min(i + max_concurrent, Len(symbols)))
         IN  Update(results, get_multiple_quotes(batch, good))

\* get_quotes_with_smart_delays(symbols, max_concurrent)
get_quotes_with_smart_delays(symbols, max_concurrent, good) ==
    IF Len(symbols) <= max_concurrent
    THEN get_multiple_quotes(symbols, good)
    ELSE SmartBatches(symbols, max_concurrent, good, 0, EmptyMap)

NoSmartCall == [done |-> FALSE, map |-> EmptyMap]

\* No list asked for yet.
SmartAtRest ==
    /\ sreq = [symbols |-> <<>>, max_concurrent |-> 3, good |-> {}]
    /\ sres = NoSmartCall

\* a caller asks get_quotes_with_smart_delays for the quotes of the list
GetQuotesWithSmartDelays ==
    /\ ~sres.done
    /\ sres' = [done |-> TRUE,
                map |-> get_quotes_with_smart_delays(
                            sreq.symbols, sreq.max_concurrent, sreq.good)]
    /\ UNCHANGED sreq
    /\ UNCHANGED notSmartVars

----------------------------------------------------------------------------
(* Yahoo's earnings calendar: get_yahoo_earnings_calendar, called with no  *)
(* valid cache entry. A date is a record of year, month and day; years are *)
(* counted from the current one.                                           *)

Date(y, mo, d) == [year |-> y, month |-> mo, day |-> d]

\* datetime comparison: a > b
Later(a, b) ==
    \/ a.year > b.year
    \/ a.year = b.year /\ a.month > b.month
    \/ a.year = b.year /\ a.month = b.month /\ a.day > b.day

\* quarterly_months = [1, 4, 7, 10]
quarterly_months == <<1, 4, 7, 10>>

\* day of the month of the estimate
EstimateDay == 15

\* days of the month on which the calendar may be asked for
CalendarDays == {1, 14, 15, 16, 28}

\* the loop 'for month in quarterly_months' from index i: the first month
\* whose estimate lies after the current date is appended, then 'break'
RECURSIVE MockEarningsLoop(_, _)
MockEarningsLoop(current_date, i) ==
    IF i > Len(quarterly_months) THEN <<>>
    ELSE LET month == quarterly_months[i]
             next_earnings ==
                 IF month > current_date.month
                 THEN Date(current_date.year, month, EstimateDay)
                 ELSE Date(current_date.year + 1, month, EstimateDay)
         IN  IF Later(next_earnings, current_date)
             THEN << [date |-> next_earnings, estimated |-> TRUE] >>
             ELSE MockEarningsLoop(current_date, i + 1)

\* what _make_yahoo_request gives for an endpoint: None, a quoteSummary
\* with or without a result, a chart, or another body
EndpointAnswers == {"None", "summary", "noresult", "chart", "other"}

\* the earnings date a quoteSummary reports
ReportedDate == Date(0, 12, 20)

\* the loop over endpoints_to_try from index i, then the mock record
RECURSIVE EndpointLoop(_, _, _)
EndpointLoop(answers, current_date, i) ==
    IF i > Len(answers)
    THEN [source |-> "mock_fallback",
          upcoming_earnings |-> MockEarningsLoop(current_date, 1)]
    ELSE CASE answers[i] = "summary" ->
                [source |-> "endpoint",
                 upcoming_earnings |->
                     << [date |-> ReportedDate, estimated |-> FALSE] >>]
           [] answers[i] = "chart" ->
                [source |-> "chart_endpoint", upcoming_earnings |-> <<>>]
           [] OTHER -> EndpointLoop(answers, current_date, i + 1)

\* get_yahoo_earnings_calendar(symbol)
get_yahoo_earnings_calendar(answers, current_date) ==
    EndpointLoop(answers, current_date, 1)

NoEarnCall == [source |-> "none", upcoming_earnings |-> <<>>]

\* No calendar asked for yet.
EarningsAtRest ==
    /\ ereq = [date |-> Date(0, 1, 1), answers |-> <<"None", "None", "None">>]
    /\ eres = NoEarnCall

\* a caller asks get_yahoo_earnings_calendar for a symbol's calendar
GetYahooEarningsCalendar ==
    /\ eres = NoEarnCall
    /\ eres' = get_yahoo_earnings_calendar(ereq.answers, ereq.date)
    /\ UNCHANGED ereq
    /\ UNCHANGED notEarnVars

----------------------------------------------------------------------------
(* Threads inside the FMP layer: _make_fmp_request and                     *)
(* add_company_name_to_cache, one step per test of FMP_ENABLED and per     *)
(* HTTP request                                                            *)

\* the resolver variables a request of _make_fmp_request leaves alone
FmpRequestLeaves ==
    <<hybrid_quote_cache, hybrid_quote_age, company_name_cache,
      yahoo_quote_cache, yahoo_cache_valid, yahoo_since, sinceCall, lastCall,
      treq, fetched>>

\* a request goes out: it is late when the flag is down by then
CountSend == lateSends' = IF FMP_ENABLED THEN lateSends ELSE Bump(lateSends)

\* Thread t enters _make_fmp_request: 'if not FMP_ENABLED or not
\* FMP_API_KEY: return None', else the for loop starts with the gate.
FmpEnter(t) ==
    /\ fpc[t] = "idle"
    /\ FMP_ENABLED
    /\ fpc' = [fpc EXCEPT ![t] = "gate"]
    /\ fattempt' = [fattempt EXCEPT ![t] = 0]
    /\ UNCHANGED lateSends
    /\ UNCHANGED resVars
    /\ UNCHANGED notFmpThreadVars

\* Thread t leaves the gate (or its backoff sleep and the gate) and sends
\* the request of its current attempt; the answer is handled as in the
\* loop body.
FmpSend(t) ==
    /\ fpc[t] = "gate"
    /\ CountSend
    /\ \E resp \in FmpResponses :
         LET w == FmpAttempt(World(0), resp)
         IN  /\ FMP_ENABLED' = w.en
             /\ fmp_consecutive_forbidden' = w.forb
             /\ run403' = w.run
             /\ IF FmpRetries(resp, fattempt[t])
                THEN /\ fattempt' = [fattempt EXCEPT ![t] = @ + 1]
                     /\ UNCHANGED fpc
                ELSE /\ fattempt' = [fattempt EXCEPT ![t] = 0]
                     /\ fpc' = [fpc EXCEPT ![t] = "idle"]
    /\ UNCHANGED FmpRequestLeaves
    /\ UNCHANGED notFmpThreadVars

\* Thread t enters add_company_name_to_cache(symbol) without a name:
\* 'if FMP_ENABLED:', then the gate.
NameEnter(t) ==
    /\ fpc[t] = "idle"
    /\ FMP_ENABLED
    /\ fpc' = [fpc EXCEPT ![t] = "namegate"]
    /\ UNCHANGED <<fattempt, lateSends>>
    /\ UNCHANGED resVars
    /\ UNCHANGED notFmpThreadVars

\* Thread t leaves the gate and sends the quote request of
\* add_company_name_to_cache; the rest of the function follows.
NameSend(t, symbol, env) ==
    /\ fpc[t] = "namegate"
    /\ CountSend
    /\ \E o \in { Finish("name", <<symbol>>, w, 0)
                  : w \in NameRequest(World(0), symbol, env) } : Apply(o)
    /\ fpc' = [fpc EXCEPT ![t] = "idle"]
    /\ UNCHANGED fattempt
    /\ UNCHANGED notFmpThreadVars

\* No thread inside the FMP layer.
FmpThreadsAtRest ==
    /\ fpc = [t \in Threads |-> "idle"]
    /\ fattempt = [t \in Threads |-> 0]
    /\ lateSends = 0

\* everything outside the evaluators, the gates and the quote resolver,
\* before its first call
RestAtRest ==
    /\ HistoryAtRest
    /\ WatchlistAtRest
    /\ IntervalAtRest
    /\ SmartAtRest
    /\ EarningsAtRest
    /\ FmpThreadsAtRest

----------------------------------------------------------------------------
(* Specifications *)

InitAlerts ==
    /\ kind \in Kinds
    /\ AlertsAtRest
    /\ gprov = "fmp"
    /\ GateAtRest
    /\ FMP_ENABLED = TRUE
    /\ ResolverAtRest
    /\ RestAtRest

\* Runs with a working notification transport.
NextAlerts ==
    \/ StartRun(AllQuotes)
    \/ CheckSymbol
    \/ SendAlert(WorkingTransport)
    \/ SaveLog

Spec == InitAlerts /\ [][NextAlerts]_vars

\* Runs in which a send may fail and the process may stop.
NextFaulty ==
    \/ StartRun(FewQuotes)
    \/ CheckSymbol
    \/ SendAlert(FaultyTransport)
    \/ SaveLog
    \/ ErrorHandler(FaultyTransport)
    \/ RunHandler(FaultyTransport)
    \/ Crash

SpecFaulty == InitAlerts /\ [][NextFaulty]_vars

\* Runs in which reading the log file may fail.
NextLogFault ==
    \/ StartRunWith(FewQuotes, LoadOutcomes)
    \/ CheckSymbol
    \/ SendAlert(WorkingTransport)
    \/ SaveLog

SpecLogFault == InitAlerts /\ [][NextLogFault]_vars

InitGate ==
    /\ kind = "high"
    /\ AlertsAtRest
    /\ gprov \in Providers
    /\ GateAtRest
    /\ FMP_ENABLED = TRUE
    /\ ResolverAtRest
    /\ RestAtRest

\* One caller: every request, retries included, goes through the gate.
NextSerial ==
    \/ GateEnter(1)
    \/ GateWake(1)
    \/ GatePass(1)
    \/ GateTick

SpecSerial == InitGate /\ [][NextSerial]_vars

\* Several worker threads share the gate.
NextThreads ==
    \/ \E t \in Threads : GateEnter(t)
    \/ \E t \in Threads : GateWake(t)
    \/ \E t \in Threads : GatePass(t)
    \/ GateTick

SpecThreads == InitGate /\ [][NextThreads]_vars

\* The alert worker threads in front of _rate_limit_alert.
InitAlertGate ==
    /\ kind = "high"
    /\ AlertsAtRest
    /\ gprov = "alert"
    /\ GateAtRest
    /\ FMP_ENABLED = TRUE
    /\ ResolverAtRest
    /\ RestAtRest

SpecAlertGate == InitAlertGate /\ [][NextThreads]_vars

\* FMP_ENABLED = bool(FMP_API_KEY): the key may be configured or not.
InitResolver ==
    /\ kind = "high"
    /\ AlertsAtRest
    /\ gprov = "fmp"
    /\ GateAtRest
    /\ FMP_ENABLED \in BOOLEAN
    /\ ResolverAtRest
    /\ RestAtRest

\* What the providers can answer during one call: response sequences of
\* the FMP and Yahoo transports, the item of FMP's quote list, the body of
\* Yahoo's chart answer, the answer to the company-name request.
AnyOutcome ==
    [fs |-> FmpScripts, ys |-> YahooScripts, items |-> FmpItems,
     bodies |-> YahooBodies, names |-> NameResponses]

\* FMP answers, but never with a 403.
NeverForbidden ==
    [AnyOutcome EXCEPT
       !.fs = { f \in FmpScripts : \A k \in 1..Len(f) : f[k] # "403" },
       !.names = NameResponses \ {"403"}]

\* Each provider either answers well at once, or refuses.
AnswerOrRefuse ==
    [fs |-> { <<"list">>, <<"403">>, <<"404">> },
     ys |-> { <<"200">>, <<"404">> },
     items |-> {"ok"}, bodies |-> {"ok", "nores"},
     names |-> {"name", "403"}]

\* One caller asks for the quote of one symbol again and again while time
\* passes; the waits in Yahoo's gate are part of the calls.
NextCache ==
    \/ GetStockQuote(STOCKS_TO_CHECK[1], NeverForbidden, YahooMinWait)
    \/ Tick
    \/ LongIdle

SpecCache == InitResolver /\ [][NextCache]_vars

\* One caller asks for the quote and the history of one symbol while FMP
\* may refuse with 403.
NextBreaker ==
    \/ GetStockQuote(STOCKS_TO_CHECK[1], AnswerOrRefuse, YahooMinWait)
    \/ GetHistory(STOCKS_TO_CHECK[1], AnswerOrRefuse, YahooMinWait)
    \/ Tick
    \/ LongIdle

SpecBreaker == InitResolver /\ [][NextBreaker]_vars

\* One response sequence for each way a request can end.
OneOfEachKind ==
    [fs |-> { <<"list">>, <<"empty">>, <<"403">>, <<"404">>,
              <<"exc", "429", "exc", "429">> },
     ys |-> { <<"200">>, <<"404">>,
              <<"429", "500", "exc", "429", "500", "exc">> },
     items |-> FmpItems, bodies |-> YahooBodies,
     names |-> {"name", "noname", "403"}]

\* Callers ask for a single quote and for the quotes of the watchlist;
\* between calls either no time or a long time passes.
NextResolver ==
    \/ GetStockQuote(STOCKS_TO_CHECK[1], OneOfEachKind, 0)
    \/ GetMultipleStockQuotes(STOCKS_TO_CHECK, OneOfEachKind, 0)
    \/ LongIdle

SpecResolver == InitResolver /\ [][NextResolver]_vars

\* Calls of the two transports, one after the other, each attempt answered
\* in any way the provider can answer.
NextTransport ==
    \/ FmpCall
    \/ FmpStep
    \/ YahooCall
    \/ YahooStep

SpecTransport == InitResolver /\ [][NextTransport]_vars

\* Every attempt ends: the request has a timeout and every sleep of the
\* loops is finite.
SpecTransportFair ==
    /\ SpecTransport
    /\ WF_vars(FmpStep)
    /\ WF_vars(YahooStep)

\* The providers hold any series of up to MaxBars bars, FMP's key may be
\* configured or not, and the series is asked for once.
InitHistory ==
    /\ kind = "high"
    /\ AlertsAtRest
    /\ gprov = "fmp"
    /\ GateAtRest
    /\ FMP_ENABLED \in BOOLEAN
    /\ ResolverAtRest
    /\ hreq \in [period : HistPeriods, fmp : FmpAnswers,
                  yahoo : YahooAnswers, off : UtcOffsets]
    /\ hist = NoHistCall
    /\ WatchlistAtRest
    /\ IntervalAtRest
    /\ SmartAtRest
    /\ EarningsAtRest
    /\ FmpThreadsAtRest

NextHistory ==
    \/ GetHybridStockHistory
    \/ GetHistoricalPrices

SpecHistory == InitHistory /\ [][NextHistory]_vars

\* Both providers know every symbol and answer at once.
ProvidersAnswer ==
    [fs |-> { <<"list">> }, ys |-> { <<"200">> }, items |-> {"ok"},
     bodies |-> {"ok"}, names |-> {"name"}]

\* The combined bot process: the 52-week-high or buy-dip worker, and the
\* command handler with a user who removes the second symbol of the
\* watchlist and adds it again; the file is written without error.
NextWatchlist ==
    \/ StartRun(FewQuotes)
    \/ CheckSymbol
    \/ SendAlert(WorkingTransport)
    \/ SaveLog
    \/ CmdAddStock(STOCKS_TO_CHECK[2], ProvidersAnswer, {"ok"})
    \/ CmdRemoveStock(STOCKS_TO_CHECK[2], {"ok"})

SpecWatchlist == InitAlerts /\ [][NextWatchlist]_vars

\* The command handler alone, for the second symbol of the watchlist, with
\* providers that answer in any way; between commands either no time or a
\* long time passes.
NextCommands ==
    \/ CmdAddStock(STOCKS_TO_CHECK[2], OneOfEachKind, SaveOutcomes)
    \/ CmdRemoveStock(STOCKS_TO_CHECK[2], SaveOutcomes)
    \/ LongIdle

SpecCommands == InitResolver /\ [][NextCommands]_vars

\* The interval worker runs again and again while every symbol keeps the
\* quote it has.
InitInterval ==
    /\ kind = "high"
    /\ AlertsAtRest
    /\ gprov = "fmp"
    /\ GateAtRest
    /\ FMP_ENABLED = TRUE
    /\ ResolverAtRest
    /\ HistoryAtRest
    /\ WatchlistAtRest
    /\ prices_file = {}
    /\ prices_log = {}
    /\ ipc = "sleep"
    /\ iidx = 0
    /\ iquotes \in [Symbols -> IntervalQuotes]
    /\ inow = 0
    /\ isent = [s \in Symbols |-> 0]
    /\ SmartAtRest
    /\ EarningsAtRest
    /\ FmpThreadsAtRest

NextInterval ==
    \/ IntervalStart
    \/ IntervalCheck(WorkingTransport)

SpecInterval == InitInterval /\ [][NextInterval]_vars

\* Any list of up to MaxSymbols symbols, any batch size up to 3, Yahoo
\* giving a quote for any of the symbols.
InitSmart ==
    /\ kind = "high"
    /\ AlertsAtRest
    /\ gprov = "fmp"
    /\ GateAtRest
    /\ FMP_ENABLED = TRUE
    /\ ResolverAtRest
    /\ HistoryAtRest
    /\ WatchlistAtRest
    /\ IntervalAtRest
    /\ sreq \in [symbols : SymbolLists, max_concurrent : 1..3,
                 good : SUBSET BatchSymbols]
    /\ sres = NoSmartCall
    /\ EarningsAtRest
    /\ FmpThreadsAtRest

NextSmart == GetQuotesWithSmartDelays

SpecSmart == InitSmart /\ [][NextSmart]_vars

\* The calendar is asked for on any of the CalendarDays of any month,
\* each endpoint answering in any way.
InitEarnings ==
    /\ kind = "high"
    /\ AlertsAtRest
    /\ gprov = "fmp"
    /\ GateAtRest
    /\ FMP_ENABLED = TRUE
    /\ ResolverAtRest
    /\ HistoryAtRest
    /\ WatchlistAtRest
    /\ IntervalAtRest
    /\ SmartAtRest
    /\ ereq \in [date : { Date(0, mo, d) : mo \in 1..12, d \in CalendarDays },
                 answers : [1..3 -> EndpointAnswers]]
    /\ eres = NoEarnCall
    /\ FmpThreadsAtRest

NextEarnings == GetYahooEarningsCalendar

SpecEarnings == InitEarnings /\ [][NextEarnings]_vars

\* what the name lookup can meet
NameOutcomes ==
    [fs |-> { <<"list">> }, ys |-> { <<"200">>, <<"404">> }, items |-> {"ok"},
     bodies |-> {"ok"}, names |-> NameResponses]

\* Two threads call _make_fmp_request and add_company_name_to_cache in any
\* interleaving, FMP answering in any way.
NextFmpThreads ==
    \/ \E t \in Threads : FmpEnter(t)
    \/ \E t \in Threads : FmpSend(t)
    \/ \E t \in Threads : NameEnter(t)
    \/ \E t \in Threads : NameSend(t, STOCKS_TO_CHECK[1], NameOutcomes)

SpecFmpThreads == InitAlerts /\ [][NextFmpThreads]_vars

----------------------------------------------------------------------------
(* Properties of the alert evaluators *)

HighKeys == { k \in AllKeys : k[2] = "high" }

C2_LoggedOnlyAfterSent ==
    \A k \in fileLog : sent[k] >= 1

\* the observation of the buy-dip example: 270.00 against a high of 300.00
DipExample == [price |-> 270000, high |-> 300000]

DipExampleKey == <<STOCKS_TO_CHECK[1], "dip", 27000, 30000>>

\* C11: with a price of 270.00 and a 52-week high of 300.00 the buy-dip
\* evaluator takes the drop of exactly 10% as reaching the threshold: the
\* run that meets it sends one notification and stores the key
\* AAPL_dip_270.00_300.00 in the log file; a run that follows with the
\* same quotes sends nothing and leaves the log file as it was.
C11_DipOnceThenSilent ==
    kind = "dip" =>
        /\ AlertKey("dip", STOCKS_TO_CHECK[1], DipExample) = DipExampleKey
        /\ sent[DipExampleKey] <= 1
        /\ (apc = "idle" /\ seen[DipExampleKey] >= 1) =>
              /\ sent[DipExampleKey] = 1
              /\ DipExampleKey \in fileLog
        /\ runStart.same => (fileLog = runStart.log /\ sent = runStart.sent)

\* The second of two runs over the quotes of the example has completed.
C11_Witness ==
    /\ kind = "dip"
    /\ apc = "idle"
    /\ runStart.same
    /\ quotes[STOCKS_TO_CHECK[1]] = DipExample
    /\ seen[DipExampleKey] >= 2
    /\ sent[DipExampleKey] = 1
    /\ DipExampleKey \in fileLog

\* C12: when the 52-week-high log holds a key of a symbol at the start of a
\* run and the run observes that symbol within the threshold with another
\* price (rounded to cents) or another 52-week high, so that its key is not
\* in the log, the run sends a notification for the new key and adds it to
\* the log file; the older entry suppresses nothing and stays.
C12_NewObservationAlerts ==
    (kind = "high" /\ apc = "idle" /\ runStart.ran) =>
        \A s \in Symbols :
            LET new == AlertKey("high", s, quotes[s])
                old == { k \in runStart.log \cap HighKeys : k[1] = s }
            IN  (new \in HighKeys /\ new \notin runStart.log /\ old # {}) =>
                    /\ sent[new] = runStart.sent[new] + 1
                    /\ new \in fileLog
                    /\ old \subseteq fileLog

\* A run has added a second 52-week-high key for a symbol, one with
\* another rounded price or another high than the first.
C12_Witness ==
    /\ kind = "high"
    /\ apc = "idle"
    /\ \E s \in Symbols :
          LET new == AlertKey("high", s, quotes[s])
          IN  /\ new \in HighKeys
              /\ new \notin runStart.log
              /\ \E k \in runStart.log \cap HighKeys :
                    k[1] = s /\ (k[3] # new[3] \/ k[4] # new[4])
              /\ sent[new] = 1
              /\ new \in fileLog

\* C13: a key that is in the log file of an alert kind is still there after
\* every later step of every run, also of a run in which reading the log
\* file failed: no step rewrites the file without a key it held.
C13_KeysNeverRemoved ==
    [][fileLog \subseteq fileLog']_vars

\* C19: whatever fails inside a run, a raising notification transport
\* included, the evaluator is not left before the last symbol of the
\* watchlist has had its turn, and the worker thread never ends: the next
\* scheduled run of the alert type can still start.
C19_WorkerKeepsLooping ==
    /\ ~(apc = "wrapper" /\ idx < Len(STOCKS_TO_CHECK))
    /\ apc # "dead"

----------------------------------------------------------------------------
(* Properties of the rate-limit gates *)

\* C4: with a single caller, two consecutive HTTP requests to the same
\* provider are at least the provider's minimum interval apart.
C4_SerialMinInterval ==
    lastGap # NoTime => lastGap >= MinInterval(gprov)

\* C5: with several worker threads no interleaving lets two requests to
\* the same provider go out less than the minimum interval apart.
C5_ThreadsMinInterval ==
    ~(lastGap # NoTime /\ lastGap < MinInterval(gprov))

\* C20: in every interleaving of the alert worker threads, the starts of
\* any two alert-type runs are at least MIN_ALERT_SPACING apart.
C20_AlertRunsSpaced ==
    (gprov = "alert" /\ lastGap # NoTime) => lastGap >= MIN_ALERT_SPACING

\* C3: once FMP has answered FMP_FORBIDDEN_THRESHOLD times in a row with
\* 403, a resolver call that starts afterwards sends no request to FMP and
\* every quote it returns is tagged 'yahoo' or is synthetic.
C3_NoFmpAfterForbidden ==
    lastCall.after403 =>
        /\ lastCall.fmpReqs = 0
        /\ \A s \in DOMAIN lastCall.results :
              \/ lastCall.results[s].source = "yahoo"
              \/ lastCall.results[s].synthetic

\* C6: when get_stock_quote is asked for a symbol less than HYBRID_QUOTE_TTL
\* after the previous call, a get_stock_quote for the same symbol, began,
\* the two calls together sent at most one HTTP request and the second was
\* answered from the quote cache.
C6_SecondCallFromCache ==
    ( /\ lastCall.op = "quote"
      /\ lastCall.prev.age # NoTime
      /\ lastCall.prev.age < HYBRID_QUOTE_TTL )
    => /\ lastCall.prev.reqs + lastCall.reqs <= 1
       /\ lastCall.syms[1] \in lastCall.hits

QuoteCall == lastCall.op \in {"quote", "batch"}

\* C7: every returned quote with price > 0 carries a source tag out of
\* fmp, yahoo, synthetic, and every quote made by create_mock_quote is
\* tagged synthetic.
C7_SourceTagged ==
    QuoteCall =>
        \A s \in DOMAIN lastCall.results :
            LET q == lastCall.results[s]
            IN  /\ q.price > 0 => q.source \in {"fmp", "yahoo", "synthetic"}
                /\ q.synthetic => q.source = "synthetic"

\* C8: a call returns a synthetic quote for a symbol only if, during that
\* call, FMP was disabled or gave no valid quote for it, and Yahoo was tried
\* for it and gave no valid quote.
C8_SyntheticOnlyAfterBoth ==
    QuoteCall =>
        \A s \in DOMAIN lastCall.results :
            lastCall.results[s].synthetic =>
                /\ s \notin lastCall.fgood
                /\ s \in lastCall.ytried
                /\ s \notin lastCall.ygood

\* C9: no quote with price <= 0 is in the quote cache or is returned as
\* real data, and when FMP's quote for a symbol has price <= 0, Yahoo is
\* tried for that symbol.
C9_NoNonPositiveQuote ==
    /\ \A s \in Symbols :
          hybrid_quote_cache[s].kind = "quote" => hybrid_quote_cache[s].price > 0
    /\ QuoteCall =>
          /\ \A s \in DOMAIN lastCall.results :
                ~lastCall.results[s].synthetic => lastCall.results[s].price > 0
          /\ lastCall.fzero \subseteq lastCall.ytried

\* C10: get_stock_quote returns a quote record whatever the providers do,
\* and get_multiple_stock_quotes returns a map holding a quote record for
\* every requested symbol.
C10_AlwaysARecord ==
    QuoteCall =>
        \A s \in Range(lastCall.syms) :
            /\ s \in DOMAIN lastCall.results
            /\ lastCall.results[s].kind = "quote"

\* a batch in which one symbol got a provider's quote and another, after
\* both providers were asked, the synthetic one
C10_Witness ==
    /\ lastCall.op = "batch"
    /\ lastCall.fmpReqs > 0
    /\ \E s \in Range(lastCall.syms) :
          lastCall.results[s].synthetic /\ s \in lastCall.ytried
    /\ \E s \in Range(lastCall.syms) : ~lastCall.results[s].synthetic

\* C21: every provider quote a call returns out of a cache, without asking
\* the provider for it in that call, was received from the provider less
\* than HYBRID_QUOTE_TTL before the call; a quote received longer ago is
\* never served.
C21_ServedFresh ==
    QuoteCall =>
        \A s \in DOMAIN lastCall.results :
            ~lastCall.results[s].synthetic => s \notin lastCall.stale


\* The four ways a symbol of a batch call can have been served.
ServedBy(c, s) ==
    { src \in {"cache", "primary", "secondary", "synthetic"} :
        \/ src = "cache" /\ s \in c.hits
        \/ src = "primary" /\ s \in c.fmp_served
        \/ src = "secondary" /\ s \in c.yserved
        \/ src = "synthetic" /\ c.results[s].synthetic }

\* C22: a call of get_multiple_stock_quotes serves each requested symbol in
\* exactly one way, from the cache, by FMP, by Yahoo or by a synthetic
\* quote; a symbol served from the cache is named in no request to FMP or
\* Yahoo, Yahoo is asked only for symbols FMP's batch did not serve, and a
\* synthetic quote goes only to a symbol neither provider served.
C22_ServedExactlyOneWay ==
    lastCall.op = "batch" =>
        /\ DOMAIN lastCall.results = Range(lastCall.syms)
        /\ \A s \in Range(lastCall.syms) :
               Cardinality(ServedBy(lastCall, s)) = 1
        /\ lastCall.hits \cap (lastCall.fasked \cup lastCall.ytried) = {}
        /\ lastCall.ytried \cap lastCall.fmp_served = {}
        /\ \A s \in Range(lastCall.syms) :
               lastCall.results[s].synthetic
                   => s \notin lastCall.fmp_served \cup lastCall.yserved

\* A batch call in which FMP served one symbol and Yahoo, asked for the
\* other, did not: that one got the synthetic quote.
C22_Witness ==
    /\ lastCall.op = "batch"
    /\ lastCall.fmp_served = {"AAPL"}
    /\ lastCall.ytried = {"MSFT"}
    /\ lastCall.yserved = {}
    /\ lastCall.results["MSFT"].synthetic

----------------------------------------------------------------------------
(* Properties of the provider transports *)

\* C14: in every state, if the consecutive-forbidden counter has reached
\* FMP_FORBIDDEN_THRESHOLD then FMP is disabled; and once FMP_ENABLED is
\* false no step sets it back to true.
C14_DisabledForGood ==
    /\ [](fmp_consecutive_forbidden >= FMP_FORBIDDEN_THRESHOLD => ~FMP_ENABLED)
    /\ [][~FMP_ENABLED => ~FMP_ENABLED']_vars

\* The counter has reached the threshold, FMP is disabled, and a call made
\* after that has ended.
C14_Witness ==
    /\ fmp_consecutive_forbidden >= FMP_FORBIDDEN_THRESHOLD
    /\ ~FMP_ENABLED
    /\ lastCall.op # "none"
    /\ lastCall.after403
    /\ lastCall.fmpReqs = 0

\* FMP answers with status 200: a quote list, an empty list, or an object
\* with an 'Error Message'
Fmp2xx == {"list", "empty", "errmsg"}

\* C15: in _make_fmp_request every 2xx response resets the
\* consecutive-forbidden counter to 0 and ends the call with the parsed
\* body of that response as the return value.
C15_SuccessResets ==
    (treq.prov = "fmp" /\ treq.last \in Fmp2xx) =>
        /\ fmp_consecutive_forbidden = 0
        /\ ~treq.running
        /\ treq.data = treq.last

\* the most HTTP attempts one call of provider p's transport makes
MaxAttempts(p) == IF p = "fmp" THEN 1 + max_retries ELSE MAX_RETRIES

\* C16: when an attempt of either transport is answered with a 5xx (or
\* another status that is none of 2xx, 403, 404, 429) or ends in a
\* transport exception or timeout, and attempts are left, the transport
\* tries again: it does not return after the first such answer.
C16_TransientRetried ==
    (treq.last \in {"500", "exc"} /\ treq.sent < MaxAttempts(treq.prov)) =>
        treq.running

\* C17: every transport call terminates: _make_fmp_request makes at most
\* 4 HTTP attempts and _make_yahoo_request at most 6, whatever the
\* answers; a call whose every attempt was answered 429 returns None; and
\* every call that has begun comes to its end.
C17_TransportTerminates ==
    /\ [](/\ treq.prov = "fmp" => treq.sent <= 4
          /\ treq.prov = "yahoo" => treq.sent <= 6
          /\ (~treq.running /\ treq.all429) => treq.data = "None")
    /\ (treq.running ~> ~treq.running)

\* A call of _make_fmp_request has ended after four attempts that were
\* all answered 429.
C17_Witness ==
    /\ treq.prov = "fmp"
    /\ ~treq.running
    /\ treq.all429
    /\ treq.sent = 4
    /\ treq.data = "None"

\* C18: an attempt answered 403 or 404 ends the transport call with None,
\* without a retry; a 403 from FMP adds exactly one to the
\* consecutive-forbidden counter, a 404 from FMP leaves the counter and
\* FMP_ENABLED as they were.
C18_ForbiddenAndNotFound ==
    treq.last \in {"403", "404"} =>
        /\ ~treq.running
        /\ treq.data = "None"
        /\ (treq.prov = "fmp" /\ treq.last = "403") =>
              fmp_consecutive_forbidden = treq.forb0 + 1
        /\ (treq.prov = "fmp" /\ treq.last = "404") =>
              /\ fmp_consecutive_forbidden = treq.forb0
              /\ FMP_ENABLED = treq.en0

\* FMP has answered 403 to the second attempt of a call, after other 403s.
C18_Witness ==
    /\ treq.prov = "fmp"
    /\ treq.last = "403"
    /\ treq.sent = 2
    /\ treq.forb0 >= 1
    /\ fmp_consecutive_forbidden = treq.forb0 + 1

----------------------------------------------------------------------------
(* Properties of the historical series *)

\* C23: the dates of every series returned by get_hybrid_stock_history and
\* get_historical_prices are strictly ascending, hence without a duplicate,
\* whether the series is FMP's (delivered newest first), Yahoo's or the mock
\* generator's.
C23_DatesAscending ==
    hist.kind = "series" =>
        \A i \in 1..(Len(hist.dates) - 1) : hist.dates[i] < hist.dates[i + 1]

\* FMP's list of three bars, newest first, came back as a series of three
\* dates.
C23_Witness ==
    /\ hist.kind = "series"
    /\ hist.source = "fmp"
    /\ Len(hreq.fmp.bars) = MaxBars
    /\ Len(hist.dates) = MaxBars

\* C30: in every series returned by get_hybrid_stock_history the lists
\* prices, dates and historical_data have the same length and position i of
\* each is the same trading day, also when bars with fields that cannot be
\* converted were skipped.
C30_ListsAligned ==
    hist.kind = "series" =>
        /\ Len(hist.prices) = Len(hist.dates)
        /\ Len(hist.historical_data) = Len(hist.dates)
        /\ \A i \in 1..Len(hist.dates) :
              /\ hist.historical_data[i].date = hist.dates[i]
              /\ hist.historical_data[i].close = hist.prices[i]

----------------------------------------------------------------------------
(* Properties of the watchlist *)

\* C24: a run of the evaluator that starts after save_stock_list(L) has
\* succeeded checks symbols of L only and has all of L in the list it walks.
C24_RunsOverSavedList ==
    (saved.ok /\ ~saved.midrun /\ apc = "loop") =>
        /\ STOCKS_TO_CHECK[idx] \in Range(saved.list)
        /\ Range(saved.list) \subseteq Range(STOCKS_TO_CHECK)

\* C27: /add puts a symbol on the watchlist only when a provider gave its
\* quote; when no provider has data for it, the reply is that the stock
\* cannot be found and the watchlist stays as it was.
C27_AddValidates ==
    lastCmd.cmd = "add" =>
        /\ lastCmd.reply = "added" => ~lastCmd.synthetic
        /\ lastCmd.synthetic =>
              /\ lastCmd.reply = "notfound"
              /\ config_stocks = lastCmd.before

----------------------------------------------------------------------------
(* Properties of the interval alerts *)

\* C25: however often run_and_notify_stock_interval runs while a symbol's
\* quote stays the same, it sends at most one notification for that symbol.
C25_IntervalOnce ==
    \A s \in Symbols : isent[s] <= 1

----------------------------------------------------------------------------
(* Properties of Yahoo's sequential batches *)

\* C26: the map get_quotes_with_smart_delays returns holds the quote of
\* every symbol of the list whose own fetch gave one, whichever batch the
\* symbol is in.
C26_EveryBatchServed ==
    sres.done =>
        \A sym \in Range(sreq.symbols) \cap sreq.good : sym \in DOMAIN sres.map

----------------------------------------------------------------------------
(* Properties of the earnings calendar *)

\* the 15th of January, April, July and October of this year and the next
QuarterlyDates ==
    { Date(y, quarterly_months[i], EstimateDay) :
        y \in {0, 1}, i \in 1..Len(quarterly_months) }

\* C28: when every endpoint fails, the record of
\* get_yahoo_earnings_calendar is tagged 'mock_fallback' and its one
\* estimated entry is the earliest 15th of January, April, July or October
\* after the current date, whatever the current month.
C28_NextQuarterlyDate ==
    (eres.source # "none"
       /\ \A i \in 1..3 : ereq.answers[i] \in {"None", "noresult", "other"}) =>
        /\ eres.source = "mock_fallback"
        /\ Len(eres.upcoming_earnings) = 1
        /\ eres.upcoming_earnings[1].estimated
        /\ LET date == eres.upcoming_earnings[1].date
           IN  /\ date \in QuarterlyDates
               /\ Later(date, ereq.date)
               /\ \A q \in QuarterlyDates :
                     Later(q, ereq.date) => ~Later(date, q)

----------------------------------------------------------------------------
(* Properties of the threads inside the FMP layer *)

\* C29: once a thread has set FMP_ENABLED to False, no thread sends another
\* HTTP request to FMP, also not a thread that was inside
\* _make_fmp_request or add_company_name_to_cache at that moment.
C29_NoRequestOnceDisabled == lateSends = 0

====
